---- MODULE Spec2Model ----
(***************************************************************************)
(* A model of fa_release_tool.py: the destination resolver, and the fetch  *)
(* and package commands that drive it over the configured modules.         *)
(*                                                                         *)
(* A Python str is a sequence of one-character strings ("/w" is            *)
(* <<"/", "w">>), so that isabs, endswith, join and normpath are computed  *)
(* character by character as posixpath computes them.  An optional value   *)
(* is a sequence of length 0 (None) or 1 (the value).  A module of the     *)
(* configuration is a function from the keys it has to optional values, as *)
(* yaml.safe_load returns it.                                              *)
(***************************************************************************)
EXTENDS Integers, Sequences, FiniteSets, TLC

VARIABLES
    cmd,            \* the subcommand main() dispatched to
    config,         \* the parsed configuration file, None when there is no file
    arg_dest,       \* args.dest (fetch), args.source (package)
    arg_outdir,     \* args.outdir (package)
    arg_modname,    \* args.modname
    cwd,            \* os.getcwd()
    disk,           \* path -> what is there
    disk0,          \* the disk when this run of the command started
    made,           \* os.makedirs: the output directories the command created
    packaged,       \* the modules fmtk wrote a zip for
    modules,        \* the modules the command loaded (and stashed into)
    todo,           \* get_mods_to_process(modules, modname)
    global_dest,    \* the global dest handed to resolve_mod_dest
    global_update,  \* global_config.get("update")
    outdir,         \* cmd_package's outdir
    idx,            \* the module of todo the loop is at
    dest,           \* the resolved destination of that module
    pc,             \* position in the running command
    exit_code,      \* the exit status of the process, None while it runs
    report,         \* module of todo -> what the command printed about it
    oplog,          \* the VCS and packaging operations performed, in order
    run,            \* how many times the command was started
    prev_report,    \* the report of the previous run
    result,         \* what the last call of resolve_mod_dest returned or raised
    mod_assets,     \* cmd_bundle: what find_mod_assets_or_sources returned
    fa_version,     \* cmd_bundle: the version of the main module
    tmpdirs,        \* the temporary directories that exist, each with its tree
    zip_path,       \* cmd_bundle: what build_release_zip returned
    steam_running,  \* a process named steam.exe is there and is running
    factorio_path,  \* cmd_install: the executable the user chose
    is_steam,       \* cmd_install: the chosen executable is the Steam install
    data_dir,       \* cmd_install: what find_factorio_datadir returned
    asked           \* how many times input() was called

env == <<cmd, config, arg_dest, arg_outdir, arg_modname, cwd>>
locals == <<modules, todo, global_dest, global_update, outdir>>
bundling == <<mod_assets, fa_version, tmpdirs, zip_path>>
installing == <<steam_running, factorio_path, is_steam, data_dir, asked>>
vars == <<cmd, config, arg_dest, arg_outdir, arg_modname, cwd, disk, disk0, made,
          packaged, modules, todo, global_dest, global_update, outdir, idx,
          dest, pc, exit_code, report, oplog, run, prev_report, result,
          mod_assets, fa_version, tmpdirs, zip_path,
          steam_running, factorio_path, is_steam, data_dir, asked>>

----------------------------------------------------------------------------
(* Python values *)

None == << >>
Some(v) == <<v>>
IsNone(o) == o = None
Val(o) == o[1]

\* mod.get(key): None when the key is missing
Get(mod, key) == IF key \in DOMAIN mod THEN mod[key] ELSE None

\* truth value of an optional str: None and "" are false
TruthyStr(o) == o # None /\ Val(o) # << >>

NoKeys == [k \in {} |-> None]

----------------------------------------------------------------------------
(* str and posixpath *)

Sep == "/"

Last(s) == s[Len(s)]

StartsWith(s, p) == Len(s) >= Len(p) /\ SubSeq(s, 1, Len(p)) = p

EndsWith(s, p) == Len(s) >= Len(p) /\ SubSeq(s, Len(s) - Len(p) + 1, Len(s)) = p

\* The element of a one-element set.  TLC evaluates a LET definition and an
\* operator's argument again at every use when it evaluates ENABLED; the
\* variable x of {e(x) : x \in {v}} holds the value of v, so what a loop
\* carries from turn to turn is bound that way.
The(S) == CHOOSE x \in S : TRUE

\* s.split("/"): one more character c after the components r
SplitStep(r, c) ==
    IF c = Sep THEN Append(r, << >>)
    ELSE [r EXCEPT ![Len(r)] = Append(@, c)]

\* s.split("/") of the first k characters of s
RECURSIVE SplitUpTo(_, _)
SplitUpTo(s, k) ==
    IF k = 0 THEN << << >> >>
    ELSE The({SplitStep(r, s[k]) : r \in {SplitUpTo(s, k - 1)}})

Split(s) == SplitUpTo(s, Len(s))

\* "/".join of the first k components
RECURSIVE JoinUpTo(_, _)
JoinUpTo(comps, k) ==
    IF k = 0 THEN << >>
    ELSE IF k = 1 THEN comps[1]
    ELSE JoinUpTo(comps, k - 1) \o <<Sep>> \o comps[k]

\* "/".join(comps)
JoinSep(comps) == JoinUpTo(comps, Len(comps))

\* os.path.isabs
IsAbs(s) == StartsWith(s, <<Sep>>)

\* os.path.join(a, b)
PathJoin(a, b) ==
    IF StartsWith(b, <<Sep>>) THEN b
    ELSE IF a = << >> \/ Last(a) = Sep THEN a \o b
    ELSE a \o <<Sep>> \o b

\* posixpath.normpath: 2 for exactly two leading slashes, 1 for one or for
\* three and more, 0 for none
InitialSlashes(path) ==
    IF ~StartsWith(path, <<Sep>>) THEN 0
    ELSE IF StartsWith(path, <<Sep, Sep>>) /\ ~StartsWith(path, <<Sep, Sep, Sep>>) THEN 2
    ELSE 1

\* one turn of the loop of normpath: component comp after new_comps
NormStep(new_comps, comp, slashes) ==
    IF comp = << >> \/ comp = <<".">> THEN new_comps
    ELSE IF \/ comp # <<".", ".">>
            \/ (slashes = 0 /\ new_comps = << >>)
            \/ (new_comps # << >> /\ Last(new_comps) = <<".", ".">>)
         THEN Append(new_comps, comp)
    ELSE IF new_comps # << >> THEN SubSeq(new_comps, 1, Len(new_comps) - 1)
    ELSE new_comps

\* the loop of normpath over the first k components
RECURSIVE NormComps(_, _, _)
NormComps(comps, k, slashes) ==
    IF k = 0 THEN << >>
    ELSE The({NormStep(new_comps, comps[k], slashes) :
                new_comps \in {NormComps(comps, k - 1, slashes)}})

\* what normpath returns: the leading slashes and the joined components
NormJoin(slashes, new_comps) ==
    LET out == [i \in 1..slashes |-> Sep] \o JoinSep(new_comps)
    IN  IF out = << >> THEN <<".">> ELSE out

NormPath(path) ==
    The({IF p = << >> THEN <<".">>
         ELSE The({NormJoin(InitialSlashes(p), new_comps) :
                     new_comps \in {NormComps(comps, Len(comps), InitialSlashes(p)) :
                                        comps \in {Split(p)}}})
         : p \in {path}})

\* os.path.abspath, in working directory wd
AbsPath(path, wd) == NormPath(IF IsAbs(path) THEN path ELSE PathJoin(wd, path))

----------------------------------------------------------------------------
(* resolve_mod_dest *)

Raise(e) == [raised |-> TRUE, value |-> e]
Return(v) == [raised |-> FALSE, value |-> v]

GDD == "__global_default_dest__"

\* the base directory with the stashed default_dest tried before --dest
ResolveBase_DefaultFirst(mod, gdest, wd) ==
    IF GDD \in DOMAIN mod THEN AbsPath(Val(mod[GDD]), wd)
    ELSE IF TruthyStr(gdest) THEN AbsPath(Val(gdest), wd)
    ELSE wd

\* the base directory: --dest, else the stashed default_dest, else the cwd
ResolveBase(mod, gdest, wd) ==
    IF TruthyStr(gdest) THEN AbsPath(Val(gdest), wd)
    ELSE IF GDD \in DOMAIN mod THEN AbsPath(Val(mod[GDD]), wd)
    ELSE wd

\* resolve_mod_dest without the os.path.isabs test
ResolveModDest_NoAbsCheck(mod, gdest, wd) ==
    LET name == Val(Get(mod, "name"))
        mod_dest == Get(mod, "dest")
        base == ResolveBase(mod, gdest, wd)
    IN  IF TruthyStr(mod_dest)
        THEN IF EndsWith(Val(mod_dest), <<Sep>>)
             THEN Return(NormPath(PathJoin(PathJoin(base, Val(mod_dest)), name)))
             ELSE Return(NormPath(PathJoin(base, Val(mod_dest))))
        ELSE IF TruthyStr(gdest) \/ GDD \in DOMAIN mod
             THEN Return(NormPath(PathJoin(base, name)))
        ELSE Return(AbsPath(name, wd))

\* resolve_mod_dest appending the module name to every per-module dest
ResolveModDest_AlwaysName(mod, gdest, wd) ==
    LET name == Val(Get(mod, "name"))
        mod_dest == Get(mod, "dest")
        base == ResolveBase(mod, gdest, wd)
    IN  IF TruthyStr(mod_dest)
        THEN IF IsAbs(Val(mod_dest)) THEN Raise("ValueError")
             ELSE Return(NormPath(PathJoin(PathJoin(base, Val(mod_dest)), name)))
        ELSE IF TruthyStr(gdest) \/ GDD \in DOMAIN mod
             THEN Return(NormPath(PathJoin(base, name)))
        ELSE Return(AbsPath(name, wd))

ResolveModDest(mod, gdest, wd) ==
    LET name == Val(Get(mod, "name"))
        mod_dest == Get(mod, "dest")
        base == ResolveBase(mod, gdest, wd)
    IN  IF TruthyStr(mod_dest)
        THEN IF IsAbs(Val(mod_dest)) THEN Raise("ValueError")
             ELSE IF EndsWith(Val(mod_dest), <<Sep>>)
                  THEN Return(NormPath(PathJoin(PathJoin(base, Val(mod_dest)), name)))
                  ELSE Return(NormPath(PathJoin(base, Val(mod_dest))))
        ELSE IF TruthyStr(gdest) \/ GDD \in DOMAIN mod
             THEN Return(NormPath(PathJoin(base, name)))
        ELSE Return(AbsPath(name, wd))

----------------------------------------------------------------------------
(* repo_matches_expected_url and should_update_mod *)

\* str.lower on the letters the model's URLs use
LowerChar(c) ==
    CASE c = "A" -> "a"
      [] c = "B" -> "b"
      [] c = "C" -> "c"
      [] c = "H" -> "h"
      [] OTHER -> c

Lower(s) == [i \in 1..Len(s) |-> LowerChar(s[i])]

\* str.rstrip("/")
RECURSIVE RStripSep(_)
RStripSep(s) ==
    IF s # << >> /\ Last(s) = Sep THEN RStripSep(SubSeq(s, 1, Len(s) - 1)) ELSE s

DotGit == <<".", "g", "i", "t">>

\* the inner normalize(url)
NormalizeUrl(url) ==
    LET u == RStripSep(Lower(url))
    IN  IF EndsWith(u, DotGit) THEN SubSeq(u, 1, Len(u) - 4) ELSE u

\* a check that takes any working copy with a remote for the module's own
RepoMatchesExpectedUrl_AnyRemote(remotes, expected_url) ==
    DOMAIN remotes # {}

\* remotes: remote name -> the set of its URLs
RepoMatchesExpectedUrl(remotes, expected_url) ==
    \E remote \in DOMAIN remotes : \E remote_url \in remotes[remote] :
        NormalizeUrl(remote_url) = NormalizeUrl(expected_url)

\* bool() of an optional boolean
Bool(o) == o # None /\ Val(o)

\* an update policy that reads the module's key only
ShouldUpdateMod_NoGlobal(mod, gupdate) ==
    IF "update" \in DOMAIN mod THEN Bool(mod["update"]) ELSE TRUE

ShouldUpdateMod(mod, gupdate) ==
    IF "update" \in DOMAIN mod THEN Bool(mod["update"])
    ELSE IF gupdate # None THEN Bool(gupdate)
    ELSE TRUE

----------------------------------------------------------------------------
(* info.json: load_info_json, validate_mod, get_mod_version_or_raise *)

\* An info.json of a directory: no file, a file json.load rejects, a JSON
\* value that is no object, or an object with some of the keys name, version.
NoInfo == [tag |-> "absent", fields |-> NoKeys]
GarbageInfo == [tag |-> "garbage", fields |-> NoKeys]
ListInfo == [tag |-> "notobject", fields |-> NoKeys]
ObjectInfo(fields) == [tag |-> "object", fields |-> fields]
Info(name, version) == ObjectInfo([name |-> name, version |-> version])

\* load_info_json of a directory holding info.json m
LoadInfoJson(m) ==
    IF m.tag = "absent" THEN Return(None)
    ELSE IF m.tag = "garbage" THEN Raise("ValueError")
    ELSE IF m.tag # "object" THEN Raise("ValueError")
    ELSE IF "name" \notin DOMAIN m.fields \/ "version" \notin DOMAIN m.fields
         THEN Raise("ValueError")
    ELSE Return(Some(m.fields))

\* validate_mod accepting any manifest that loads, whatever its name
ValidateMod_AnyName(mod_name, m) ==
    LET loaded == LoadInfoJson(m)
    IN  IF loaded.raised THEN Return(FALSE)
        ELSE IF loaded.value = None THEN Raise("FileNotFoundError")
        ELSE Return(TRUE)

\* validate_mod(mod_name, path) with info.json m at path
ValidateMod(mod_name, m) ==
    LET loaded == LoadInfoJson(m)
    IN  IF loaded.raised THEN Return(FALSE)
        ELSE IF loaded.value = None THEN Raise("FileNotFoundError")
        ELSE IF Val(loaded.value)["name"] # mod_name THEN Return(FALSE)
        ELSE Return(TRUE)

GetModVersionOrRaise(m) ==
    LET loaded == LoadInfoJson(m)
    IN  IF loaded.raised THEN loaded
        ELSE IF loaded.value = None THEN Raise("FileNotFoundError")
        ELSE IF "version" \notin DOMAIN Val(loaded.value) THEN Raise("KeyError")
        ELSE Return(Val(loaded.value)["version"])

----------------------------------------------------------------------------
(* The disk, and the configuration file *)

\* What is at a path: nothing, a file, a directory that is no git working
\* copy, or a working copy with its remotes (name -> URLs), the ref that was
\* last checked out (None: the branch the clone gave) and its info.json.
Absent == [kind |-> "absent", remotes |-> NoKeys, head |-> None, info |-> NoInfo]
PlainFile == [kind |-> "file", remotes |-> NoKeys, head |-> None, info |-> NoInfo]
PlainDir == [kind |-> "dir", remotes |-> NoKeys, head |-> None, info |-> NoInfo]
WorkingCopy(remotes, head, info) ==
    [kind |-> "git", remotes |-> remotes, head |-> head, info |-> info]

DiskAt(d, path) == IF path \in DOMAIN d THEN d[path] ELSE Absent

\* os.path.exists, os.path.isdir
Exists(d, path) == DiskAt(d, path).kind # "absent"
IsDir(d, path) == DiskAt(d, path).kind \in {"dir", "git"}

\* the stash loop of cmd_fetch
StashDefaultDest(mods, default_dest) ==
    IF TruthyStr(default_dest)
    THEN [i \in 1..Len(mods) |-> (GDD :> default_dest) @@ mods[i]]
    ELSE mods

\* find_mod: the first module of that name, letter case ignored; 0 for None
FindMod(mods, name) ==
    LET hits == {i \in 1..Len(mods) : Lower(Val(mods[i]["name"])) = Lower(name)}
    IN  IF hits = {} THEN 0 ELSE CHOOSE i \in hits : \A j \in hits : i <= j

\* get_mods_to_process: raised stands for sys.exit(1)
GetModsToProcess(mods, modname) ==
    IF TruthyStr(modname)
    THEN IF FindMod(mods, Val(modname)) = 0 THEN Raise("SystemExit")
         ELSE Return(<<mods[FindMod(mods, Val(modname))]>>)
    ELSE Return(mods)

\* a or b
Or(a, b) == IF TruthyStr(a) THEN a ELSE b

----------------------------------------------------------------------------
(* The resolver on its own: every input of a bounded set, one call each *)

MaxLen == 4

Chars == {"/", ".", "x"}

RECURSIVE StrsOfLen(_)
StrsOfLen(n) ==
    IF n = 0 THEN {<< >>}
    ELSE {Append(s, c) : s \in StrsOfLen(n - 1), c \in Chars}

Strs == UNION {StrsOfLen(n) : n \in 0..MaxLen}

ModNames == {<<"m">>, <<"m", "n">>}

GlobalDests == {None, Some(<< >>), Some(<<"/", "g">>), Some(<<"g">>), Some(<<"/", "/", "g">>)}

DefaultDests == {None, Some(<<"/", "d">>), Some(<<"d">>), Some(<<".", ".", "/", "d">>)}

Cwds == {<<"/">>, <<"/", "w">>, <<"/", "w", "v">>}

\* a module with a name, an optional dest key and an optional stashed default
ResolveMods ==
    {[name |-> Some(n)] @@ d @@ g :
        n \in ModNames,
        d \in {NoKeys} \cup {("dest" :> o) : o \in {None} \cup {Some(s) : s \in Strs}},
        g \in {NoKeys} \cup {(GDD :> o) : o \in DefaultDests \ {None}}}

\* no bundle has been started
NoBundling == mod_assets = NoKeys /\ fa_version = None /\ tmpdirs = NoKeys /\ zip_path = None

NoInstalling ==
    /\ steam_running = FALSE /\ factorio_path = None /\ is_steam = FALSE
    /\ data_dir = None /\ asked = 0

InitResolve ==
    /\ NoBundling /\ NoInstalling
    /\ cmd = "resolve"
    /\ modules \in {<<m>> : m \in ResolveMods}
    /\ global_dest \in GlobalDests
    /\ cwd \in Cwds
    /\ pc = "call"
    /\ result = None
    /\ config = None /\ arg_dest = None /\ arg_outdir = None /\ arg_modname = None
    /\ disk = NoKeys /\ disk0 = NoKeys /\ made = {} /\ packaged = {}
    /\ todo = << >> /\ global_update = None /\ outdir = None
    /\ idx = 0 /\ dest = None /\ exit_code = None
    /\ report = << >> /\ oplog = << >> /\ run = 1 /\ prev_report = << >>

\* a resolver that stores the path it resolved in the module record
CallResolve_Stash ==
    /\ cmd = "resolve"
    /\ pc = "call"
    /\ result' = Some(ResolveModDest(modules[1], global_dest, cwd))
    /\ modules' = IF Val(result').raised THEN modules
                  ELSE <<("dest" :> Some(Val(result').value)) @@ modules[1]>>
    /\ pc' = "resolved"
    /\ UNCHANGED <<env, bundling, installing, disk, disk0, made, packaged, todo, global_dest,
                   global_update, outdir, idx, dest, exit_code, report, oplog,
                   run, prev_report>>

CallResolve ==
    /\ cmd = "resolve"
    /\ pc = "call"
    /\ result' = Some(ResolveModDest(modules[1], global_dest, cwd))
    /\ pc' = "resolved"
    /\ UNCHANGED <<env, bundling, installing, disk, disk0, made, packaged, locals, idx, dest,
                   exit_code, report, oplog, run, prev_report>>

NextResolve == CallResolve

SpecResolve == InitResolve /\ [][NextResolve]_vars

\* the same call once more, on the module record and the process as the first
\* call left them; result keeps what both calls returned or raised
CallResolveAgain ==
    /\ cmd = "resolve"
    /\ pc = "resolved"
    /\ result' = Append(result, ResolveModDest(modules[1], global_dest, cwd))
    /\ pc' = "resolved again"
    /\ UNCHANGED <<env, bundling, installing, disk, disk0, made, packaged, locals, idx, dest,
                   exit_code, report, oplog, run, prev_report>>

NextResolveTwice == CallResolve \/ CallResolveAgain

SpecResolveTwice == InitResolve /\ [][NextResolveTwice]_vars

----------------------------------------------------------------------------
(* What the resolver's contract means by a path: a root and the names      *)
(* walked from it, "." staying in place and ".." going to the parent.      *)

\* the names of a path, empty ones (repeated or trailing separators) dropped
Names(path) == SelectSeq(Split(path), LAMBDA c : c # << >>)

\* the directory reached from an absolute root by the first k names
RECURSIVE Walk(_, _)
Walk(names, k) ==
    IF k = 0 THEN << >>
    ELSE LET at == Walk(names, k - 1)
         IN  IF names[k] = <<".">> THEN at
             ELSE IF names[k] = <<".", ".">>
                  THEN (IF at = << >> THEN at ELSE SubSeq(at, 1, Len(at) - 1))
             ELSE Append(at, names[k])

\* the normalized path of base/names, base absolute
Under(base, names) ==
    LET all == Names(base) \o names
    IN  [i \in 1..InitialSlashes(base) |-> Sep] \o JoinSep(Walk(all, Len(all)))

\* the inputs and the outcome of the call in SpecResolve
TheMod == modules[1]
TheName == Val(TheMod["name"])
TheDest == Get(TheMod, "dest")
Returned == pc = "resolved"
Outcome == Val(result)

\* a per-module dest is a str; relative when it does not start with a separator
HasDest == TheDest # None
RelativeDest == HasDest /\ ~(Val(TheDest) # << >> /\ Val(TheDest)[1] = Sep)
AbsoluteDest == HasDest /\ Val(TheDest) # << >> /\ Val(TheDest)[1] = Sep

\* C8: resolve_mod_dest raises exactly when the per-module dest is absolute,
\* whatever the global dest, the stashed default and the working directory
\* are: every other dest, relative ones that climb out of the base with ".."
\* included, makes it return a path.
C8_RaisesIffAbsolute ==
    Returned =>
        /\ Outcome.raised <=> AbsoluteDest
        /\ (RelativeDest /\ Val(TheDest) # << >>) =>
                (~Outcome.raised /\ IsAbs(Outcome.value))

\* a relative dest with a ".." name is accepted and resolved outside the base
C8_Witness ==
    /\ Returned
    /\ RelativeDest
    /\ \E k \in 1..Len(Names(Val(TheDest))) : Names(Val(TheDest))[k] = <<".", ".">>
    /\ ~Outcome.raised
    /\ ResolveBase(TheMod, global_dest, cwd) # <<Sep>>
    /\ ~StartsWith(Outcome.value, ResolveBase(TheMod, global_dest, cwd))

\* the path C9 states for a relative dest d
C9_Stated(d) ==
    Under(ResolveBase(TheMod, global_dest, cwd),
          IF EndsWith(d, <<Sep>>) THEN Names(d) \o <<TheName>> ELSE Names(d))

\* C9 as stated: for every relative per-module dest, the result is
\* normalize(base/dest/module_name) when the dest ends in a separator and
\* normalize(base/dest) otherwise.
C9_EveryRelativeDest ==
    (Returned /\ RelativeDest) =>
        Outcome = Return(C9_Stated(Val(TheDest)))

\* C9 (amended): for every non-empty relative per-module dest, the result is
\* normalize(base/dest/module_name) when the dest ends in a separator and
\* normalize(base/dest), without the module name, otherwise.
C9_NonEmptyRelativeDest ==
    (Returned /\ RelativeDest /\ Val(TheDest) # << >>) =>
        Outcome = Return(C9_Stated(Val(TheDest)))

\* a dest ending in a separator got the module name appended
C9_Witness ==
    /\ Returned
    /\ RelativeDest
    /\ EndsWith(Val(TheDest), <<"x", Sep>>)
    /\ ~Outcome.raised
    /\ EndsWith(Outcome.value, <<"x", Sep>> \o TheName)

\* a global dest is given when a non-empty value was passed for it
GlobalGiven == global_dest # None /\ Val(global_dest) # << >>
DefaultStashed == GDD \in DOMAIN TheMod

\* the absolute form of a str naming a directory
C10_Abs(p) == IF p[1] = Sep THEN Under(p, << >>) ELSE Under(cwd, Names(p))

\* the base by priority: global dest, else stashed default, else cwd
C10_Base ==
    IF GlobalGiven THEN C10_Abs(Val(global_dest))
    ELSE IF DefaultStashed THEN C10_Abs(Val(TheMod[GDD]))
    ELSE cwd

\* C10: the base is the global dest if given, else the default stashed on
\* the module, else the working directory; with no per-module dest the
\* result is base/module_name (cwd/module_name when neither is there), and
\* a per-module dest is resolved under that same base.
C10_BasePriority ==
    (Returned /\ ~Outcome.raised) =>
        Outcome.value =
            Under(C10_Base,
                  IF ~HasDest \/ Val(TheDest) = << >> THEN <<TheName>>
                  ELSE IF EndsWith(Val(TheDest), <<Sep>>)
                       THEN Names(Val(TheDest)) \o <<TheName>>
                  ELSE Names(Val(TheDest)))

\* both a global dest and a stashed default: the global dest won
C10_Witness ==
    /\ Returned
    /\ ~HasDest
    /\ GlobalGiven
    /\ DefaultStashed
    /\ global_dest = Some(<<Sep, "g">>)
    /\ Outcome = Return(<<Sep, "g", Sep>> \o TheName)

\* Everything of the process but the position and the results of the calls.
ResolveFrame ==
    <<env, bundling, installing, disk, disk0, made, packaged, locals, idx, dest, exit_code,
      report, oplog, run, prev_report>>

----------------------------------------------------------------------------
(* The configurations and disks the fetch and package commands are run on. *)
(* Module names are distinct and no module but one with an absolute dest   *)
(* has a dest key, so every module has a destination of its own.  The      *)
(* fields of a module that the command does not read for the disk it meets *)
(* are left out of that module.                                            *)

NMods == 2

Letters == <<"a", "b", "c", "d">>

ModName(i) == <<Letters[i]>>
RepoUrl(i) == <<"h", "/", Letters[i]>>
\* the same repository as a remote of a working copy spells it
RemoteUrl(i) == <<"H", "/", Letters[i], ".", "g", "i", "t", "/">>
ForeignUrl == <<"h", "/", "z">>

Branch == <<"b", "r">>
Commit == <<"c", "1">>
V1 == <<"1">>
V2 == <<"2">>

BareMod(i) == [name |-> Some(ModName(i)), repo |-> Some(RepoUrl(i))]

PinKeys ==
    {b @@ c : b \in {NoKeys, ("branch" :> Some(Branch))},
              c \in {NoKeys, ("commit" :> Some(Commit))}}

\* the info.json a revision of module i's repository may hold
RevisionInfos(i) ==
    {NoInfo, GarbageInfo, ObjectInfo([name |-> ModName(i)]),
     Info(ModName(i), V2), Info(<<"z">>, V1)}

\* working copies of module i's repository found on the disk: origin is the
\* repository, or a remote named fork is and origin is another one
OwnCopy(i, m) == WorkingCopy([origin |-> {RemoteUrl(i)}], None, m)
ForkCopy(i, m) ==
    WorkingCopy([origin |-> {ForeignUrl}, fork |-> {RemoteUrl(i)}], None, m)

OwnCopies(i) ==
    {OwnCopy(i, NoInfo), OwnCopy(i, GarbageInfo), OwnCopy(i, Info(ModName(i), V1)),
     ForkCopy(i, Info(ModName(i), V1))}

ForeignCopy == WorkingCopy([origin |-> {ForeignUrl}], None, Info(<<"z">>, V1))

\* module i of a fetch configuration, with what is at its destination
FetchCases(i) ==
    {[mod |-> BareMod(i) @@ ("dest" :> Some(<<Sep, "x">>)), at |-> Absent]}
    \cup {[mod |-> BareMod(i) @@ pins, at |-> Absent] : pins \in PinKeys}
    \cup {[mod |-> BareMod(i), at |-> d] : d \in {PlainFile, PlainDir, ForeignCopy}}
    \cup {[mod |-> BareMod(i) @@ ("update" :> Some(FALSE)), at |-> g] :
            g \in OwnCopies(i)}
    \cup {[mod |-> BareMod(i) @@ pins, at |-> g] :
            pins \in PinKeys,
            g \in {OwnCopy(i, GarbageInfo), OwnCopy(i, Info(ModName(i), V1)),
                   ForkCopy(i, Info(ModName(i), V1))}}
    \cup {[mod |-> BareMod(i) @@ ("update" :> Some(TRUE)),
           at |-> OwnCopy(i, Info(ModName(i), V1))]}

\* module i of a package configuration, with what is at its source
PackageCases(i) ==
    {[mod |-> BareMod(i) @@ ("dest" :> Some(<<Sep, "x">>)), at |-> Absent]}
    \cup {[mod |-> BareMod(i), at |-> d] :
            d \in {Absent, PlainFile, PlainDir, OwnCopy(i, Info(ModName(i), V1))}}

\* the configurations of n modules, module i drawn from cases[i]
RECURSIVE CaseSeqs(_, _)
CaseSeqs(cases, n) ==
    IF n = 0 THEN {<< >>}
    ELSE {Append(s, c) : s \in CaseSeqs(cases, n - 1), c \in cases[n]}

\* (args.dest, default_dest of the configuration) of a fetch
FetchDests ==
    {<<None, Some(<<Sep, "d">>)>>, <<Some(<<Sep, "g">>), None>>}

\* (args.source, default_dest of the configuration) of a package
PackageDests ==
    {<<None, None>>, <<None, Some(<<Sep, "d">>)>>,
     <<Some(<<Sep, "g">>), Some(<<Sep, "d">>)>>}

UpdateSettings == {None, Some(FALSE)}

ModNameArgs == {None, Some(<<"B">>), Some(<<"z">>)}

Cwd == <<Sep, "w">>

\* where the command will look for a module
PlannedDest(c, mod, argd, default_dest) ==
    IF c = "fetch"
    THEN ResolveModDest(StashDefaultDest(<<mod>>, default_dest)[1], argd, Cwd)
    ELSE ResolveModDest(mod, Or(argd, default_dest), Cwd)

PlannedDisk(c, cases, argd, default_dest) ==
    LET planned(i) == PlannedDest(c, cases[i].mod, argd, default_dest)
        placed == {i \in 1..Len(cases) : ~planned(i).raised /\ cases[i].at # Absent}
        paths == {planned(i).value : i \in placed}
    IN  [p \in paths |-> cases[CHOOSE i \in placed : planned(i).value = p].at]

NoReport == [msg |-> "none", version |-> None, seen |-> "none", dest |-> None]

InitCommand(c, cases, dests, update) ==
    /\ cmd = c
    /\ config = Some([modules |-> [i \in 1..Len(cases) |-> cases[i].mod],
                      default_dest |-> dests[2], update |-> update])
    /\ arg_dest = dests[1]
    /\ disk = PlannedDisk(c, cases, dests[1], dests[2])
    /\ disk0 = disk

InitLocals ==
    /\ NoBundling /\ NoInstalling
    /\ cwd = Cwd
    /\ made = {} /\ packaged = {}
    /\ modules = << >> /\ todo = << >>
    /\ global_dest = None /\ global_update = None /\ outdir = None
    /\ idx = 0 /\ dest = None /\ pc = "start" /\ exit_code = None
    /\ report = << >> /\ oplog = << >> /\ run = 1 /\ prev_report = << >>
    /\ result = None

InitFetch ==
    /\ \/ \E cases \in CaseSeqs([i \in 1..NMods |-> FetchCases(i)], NMods),
             dests \in FetchDests, update \in UpdateSettings :
                InitCommand("fetch", cases, dests, update)
       \/ /\ cmd = "fetch" /\ config = None /\ arg_dest = None
          /\ disk = NoKeys /\ disk0 = NoKeys
    /\ arg_modname \in ModNameArgs
    /\ arg_outdir = None
    /\ InitLocals

InitPackage ==
    /\ \/ \E cases \in CaseSeqs([i \in 1..NMods |-> PackageCases(i)], NMods),
             dests \in PackageDests :
                InitCommand("package", cases, dests, None)
       \/ /\ cmd = "package" /\ config = None /\ arg_dest = None
          /\ disk = NoKeys /\ disk0 = NoKeys
    /\ arg_modname \in ModNameArgs
    /\ arg_outdir \in {None, Some(<<Sep, "o">>)}
    /\ InitLocals

Init == InitFetch \/ InitPackage

----------------------------------------------------------------------------
(* cmd_fetch *)

Remaining == <<env, bundling, installing, disk0, made, packaged, run, prev_report, result>>

Exit(code) ==
    /\ pc' = "exited"
    /\ exit_code' = Some(code)

\* the message for the module the loop is at, and on to the next module
Continue(msg, version, seen) ==
    /\ report' = [report EXCEPT ![idx] =
                    [msg |-> msg, version |-> version, seen |-> seen, dest |-> dest]]
    /\ idx' = idx + 1
    /\ dest' = None
    /\ pc' = "loop"

\* one more operation: its kind, the URLs it contacts, the ref it names
Log(op, urls, ref, ok) ==
    oplog' = Append(oplog, [op |-> op, mod |-> idx, path |-> dest,
                            urls |-> urls, ref |-> ref, ok |-> ok])

Mod == todo[idx]
HereAt == DiskAt(disk, Val(dest))
Write(st) == disk' = (Val(dest) :> st) @@ disk

\* load_config_or_exit on a missing file, and get_mods_to_process on an
\* unknown module name: sys.exit(1)
FetchStartExit ==
    /\ cmd = "fetch" /\ pc = "start"
    /\ \/ config = None
       \/ config # None /\ GetModsToProcess(Val(config).modules, arg_modname).raised
    /\ Exit(1)
    /\ UNCHANGED <<Remaining, disk, locals, idx, dest, report, oplog>>

\* the configuration is read, the default dest stashed, the loop entered
FetchStart ==
    /\ cmd = "fetch" /\ pc = "start"
    /\ config # None
    /\ LET stashed == StashDefaultDest(Val(config).modules, Val(config).default_dest)
           mods == GetModsToProcess(stashed, arg_modname)
       IN  /\ ~mods.raised
           /\ modules' = stashed
           /\ todo' = mods.value
           /\ report' = [i \in 1..Len(mods.value) |-> NoReport]
    /\ global_dest' = arg_dest
    /\ global_update' = Val(config).update
    /\ idx' = 1
    /\ pc' = "loop"
    /\ UNCHANGED <<Remaining, disk, outdir, dest, exit_code, oplog>>

\* a return that turns a failed module into exit status 1
FetchReturn_FailStatus ==
    /\ cmd = "fetch" /\ pc = "loop"
    /\ idx > Len(todo)
    /\ Exit(IF \E i \in DOMAIN report : report[i].msg \notin {"done", "found"}
            THEN 1 ELSE 0)
    /\ UNCHANGED <<Remaining, disk, locals, idx, dest, report, oplog>>

\* the for loop is over: cmd_fetch returns
FetchReturn ==
    /\ cmd = "fetch" /\ pc = "loop"
    /\ idx > Len(todo)
    /\ Exit(0)
    /\ UNCHANGED <<Remaining, disk, locals, idx, dest, report, oplog>>

\* a resolver error that ends the command instead of the iteration
FetchResolveError_Abort ==
    /\ cmd = "fetch" /\ pc = "loop"
    /\ idx <= Len(todo)
    /\ ResolveModDest(Mod, global_dest, cwd).raised
    /\ Exit(1)
    /\ UNCHANGED <<Remaining, disk, locals, idx, dest, report, oplog>>

\* resolve_mod_dest raised: the module is skipped
FetchResolveError ==
    /\ cmd = "fetch" /\ pc = "loop"
    /\ idx <= Len(todo)
    /\ ResolveModDest(Mod, global_dest, cwd).raised
    /\ Continue("resolve_error", None, "none")
    /\ UNCHANGED <<Remaining, disk, locals, exit_code, oplog>>

FetchResolve ==
    /\ cmd = "fetch" /\ pc = "loop"
    /\ idx <= Len(todo)
    /\ ~ResolveModDest(Mod, global_dest, cwd).raised
    /\ dest' = Some(ResolveModDest(Mod, global_dest, cwd).value)
    /\ pc' = "inspect"
    /\ UNCHANGED <<Remaining, disk, locals, idx, exit_code, report, oplog>>

\* os.path.exists(dest) is false
FetchAbsent ==
    /\ cmd = "fetch" /\ pc = "inspect"
    /\ ~Exists(disk, Val(dest))
    /\ pc' = "clone"
    /\ UNCHANGED <<Remaining, disk, locals, idx, dest, exit_code, report, oplog>>

\* git.Repo(dest) raised InvalidGitRepositoryError
FetchNotGit ==
    /\ cmd = "fetch" /\ pc = "inspect"
    /\ HereAt.kind \in {"dir", "file"}
    /\ Continue("not_git", None, "not_git")
    /\ UNCHANGED <<Remaining, disk, locals, exit_code, oplog>>

FetchMismatch ==
    /\ cmd = "fetch" /\ pc = "inspect"
    /\ HereAt.kind = "git"
    /\ ~RepoMatchesExpectedUrl(HereAt.remotes, Val(Mod["repo"]))
    /\ Continue("mismatch", None, "mismatch")
    /\ UNCHANGED <<Remaining, disk, locals, exit_code, oplog>>

\* what validate_mod and get_mod_version_or_raise make of info.json m:
\* the message when it validates, the one when it does not
Validated(m, valid_msg, invalid_msg) ==
    LET valid == ValidateMod(Val(Mod["name"]), m)
    IN  IF valid.raised THEN <<"error", None>>
        ELSE IF ~valid.value THEN <<invalid_msg, None>>
        ELSE IF GetModVersionOrRaise(m).raised THEN <<"error", None>>
        ELSE <<valid_msg, Some(GetModVersionOrRaise(m).value)>>

\* the repo matches and update is disabled: only the manifest is looked at
FetchSkip ==
    /\ cmd = "fetch" /\ pc = "inspect"
    /\ HereAt.kind = "git"
    /\ RepoMatchesExpectedUrl(HereAt.remotes, Val(Mod["repo"]))
    /\ ~ShouldUpdateMod(Mod, global_update)
    /\ LET v == Validated(HereAt.info, "found", "found_invalid")
       IN  Continue(v[1], v[2], "match")
    /\ UNCHANGED <<Remaining, disk, locals, exit_code, oplog>>

FetchExisting ==
    /\ cmd = "fetch" /\ pc = "inspect"
    /\ HereAt.kind = "git"
    /\ RepoMatchesExpectedUrl(HereAt.remotes, Val(Mod["repo"]))
    /\ ShouldUpdateMod(Mod, global_update)
    /\ pc' = "fetch"
    /\ UNCHANGED <<Remaining, disk, locals, idx, dest, exit_code, report, oplog>>

\* where cmd_fetch goes on after a clone, a fetch and a pull
AfterClone(mod) ==
    IF TruthyStr(Get(mod, "commit")) THEN "checkout_commit" ELSE "validate"

AfterFetch(mod) ==
    IF TruthyStr(Get(mod, "branch")) THEN "checkout_branch"
    ELSE IF TruthyStr(Get(mod, "commit")) THEN "checkout_commit"
    ELSE "validate"

\* the commit checked out only when no branch is set
AfterPull_Elif(mod) == "validate"

AfterPull(mod) ==
    IF TruthyStr(Get(mod, "commit")) THEN "checkout_commit" ELSE "validate"

\* a VCS call raised: "ERROR: Problem fetching", and on to the next module
FetchProblem(op, urls, ref) ==
    /\ Log(op, urls, ref, FALSE)
    /\ Continue("error", None, report[idx].seen)

Seen(what) == report' = [report EXCEPT ![idx].seen = what]

\* git.Repo.clone_from raised, leaving nothing or a directory behind
FetchCloneFails ==
    /\ cmd = "fetch" /\ pc = "clone"
    /\ Log("clone", {Val(Mod["repo"])}, Get(Mod, "branch"), FALSE)
    /\ Continue("error", None, "absent")
    /\ \/ UNCHANGED disk
       \/ Write(PlainDir)
    /\ UNCHANGED <<Remaining, locals, exit_code>>

\* git.Repo.clone_from, to the branch if one is set
FetchClone ==
    /\ cmd = "fetch" /\ pc = "clone"
    /\ Log("clone", {Val(Mod["repo"])}, Get(Mod, "branch"), TRUE)
    /\ \E m \in RevisionInfos(FindMod(Val(config).modules, Val(Mod["name"]))) :
          Write(WorkingCopy([origin |-> {Val(Mod["repo"])}],
                            IF TruthyStr(Get(Mod, "branch")) THEN Get(Mod, "branch") ELSE None,
                            m))
    /\ Seen("absent")
    /\ pc' = AfterClone(Mod)
    /\ UNCHANGED <<Remaining, locals, idx, dest, exit_code>>

\* r.remotes.origin.fetch() raised, or there is no remote of that name
FetchFetchFails ==
    /\ cmd = "fetch" /\ pc = "fetch"
    /\ Log("fetch", Get(HereAt.remotes, "origin"), None, FALSE)
    /\ Continue("error", None, "match")
    /\ UNCHANGED <<Remaining, disk, locals, exit_code>>

\* r.remotes.origin.fetch(): the working tree stays as it is
FetchFetch ==
    /\ cmd = "fetch" /\ pc = "fetch"
    /\ "origin" \in DOMAIN HereAt.remotes
    /\ Log("fetch", HereAt.remotes["origin"], None, TRUE)
    /\ Seen("match")
    /\ pc' = AfterFetch(Mod)
    /\ UNCHANGED <<Remaining, disk, locals, idx, dest, exit_code>>

\* r.git.checkout raised
FetchCheckoutFails ==
    /\ cmd = "fetch" /\ pc \in {"checkout_branch", "checkout_commit"}
    /\ FetchProblem("checkout", {},
                    IF pc = "checkout_branch" THEN Get(Mod, "branch") ELSE Get(Mod, "commit"))
    /\ UNCHANGED <<Remaining, disk, locals, exit_code>>

\* r.git.checkout(branch)
FetchCheckoutBranch ==
    /\ cmd = "fetch" /\ pc = "checkout_branch"
    /\ Log("checkout", {}, Get(Mod, "branch"), TRUE)
    /\ \E m \in RevisionInfos(FindMod(Val(config).modules, Val(Mod["name"]))) :
          Write([HereAt EXCEPT !.head = Get(Mod, "branch"), !.info = m])
    /\ pc' = "pull"
    /\ UNCHANGED <<Remaining, locals, idx, dest, exit_code, report>>

\* r.remotes.origin.pull() raised
FetchPullFails ==
    /\ cmd = "fetch" /\ pc = "pull"
    /\ FetchProblem("pull", Get(HereAt.remotes, "origin"), None)
    /\ UNCHANGED <<Remaining, disk, locals, exit_code>>

\* r.remotes.origin.pull(): the branch moves to what the remote has
FetchPull ==
    /\ cmd = "fetch" /\ pc = "pull"
    /\ "origin" \in DOMAIN HereAt.remotes
    /\ Log("pull", HereAt.remotes["origin"], None, TRUE)
    /\ \E m \in RevisionInfos(FindMod(Val(config).modules, Val(Mod["name"]))) :
          Write([HereAt EXCEPT !.info = m])
    /\ pc' = AfterPull(Mod)
    /\ UNCHANGED <<Remaining, locals, idx, dest, exit_code, report>>

\* r.git.checkout(commit)
FetchCheckoutCommit ==
    /\ cmd = "fetch" /\ pc = "checkout_commit"
    /\ Log("checkout", {}, Get(Mod, "commit"), TRUE)
    /\ \E m \in RevisionInfos(FindMod(Val(config).modules, Val(Mod["name"]))) :
          Write([HereAt EXCEPT !.head = Get(Mod, "commit"), !.info = m])
    /\ pc' = "validate"
    /\ UNCHANGED <<Remaining, locals, idx, dest, exit_code, report>>

\* validate_mod and the version after the clone or the update
FetchValidate ==
    /\ cmd = "fetch" /\ pc = "validate"
    /\ LET v == Validated(HereAt.info, "done", "failed")
       IN  Continue(v[1], v[2], report[idx].seen)
    /\ UNCHANGED <<Remaining, disk, locals, exit_code, oplog>>

NextFetch ==
    \/ FetchStartExit
    \/ FetchStart
    \/ FetchReturn
    \/ FetchResolveError
    \/ FetchResolve
    \/ FetchAbsent
    \/ FetchNotGit
    \/ FetchMismatch
    \/ FetchSkip
    \/ FetchExisting
    \/ FetchCloneFails
    \/ FetchClone
    \/ FetchFetchFails
    \/ FetchFetch
    \/ FetchCheckoutFails
    \/ FetchCheckoutBranch
    \/ FetchPullFails
    \/ FetchPull
    \/ FetchCheckoutCommit
    \/ FetchValidate

SpecFetch == InitFetch /\ [][NextFetch]_vars

----------------------------------------------------------------------------
(* cmd_package *)

\* the exit codes run_fmtk_command may hand back: fmtk's 0 or 1, and -1
\* when the subprocess could not be started
FmtkCodes == {0, 1, -1}

PackageGlobalDest == Or(arg_dest, Val(config).default_dest)
PackageOutdir == Or(arg_outdir, PackageGlobalDest)

\* sys.exit(1) for a missing configuration or an unknown module name, and
\* the TypeError of os.path.abspath(None) when there is no outdir at all
PackageStartExit ==
    /\ cmd = "package" /\ pc = "start"
    /\ \/ config = None
       \/ config # None /\ GetModsToProcess(Val(config).modules, arg_modname).raised
       \/ config # None /\ PackageOutdir = None
    /\ Exit(1)
    /\ UNCHANGED <<Remaining, disk, locals, idx, dest, report, oplog>>

\* the configuration is read and the output directory made
PackageStart ==
    /\ cmd = "package" /\ pc = "start"
    /\ config # None
    /\ ~GetModsToProcess(Val(config).modules, arg_modname).raised
    /\ PackageOutdir # None
    /\ modules' = Val(config).modules
    /\ todo' = GetModsToProcess(Val(config).modules, arg_modname).value
    /\ report' = [i \in 1..Len(todo') |-> NoReport]
    /\ global_dest' = PackageGlobalDest
    /\ outdir' = Some(AbsPath(Val(PackageOutdir), cwd))
    /\ made' = made \cup {AbsPath(Val(PackageOutdir), cwd)}
    /\ idx' = 1
    /\ pc' = "loop"
    /\ UNCHANGED <<env, bundling, installing, disk, disk0, packaged, global_update, dest, exit_code,
                   oplog, run, prev_report, result>>

PackageReturn ==
    /\ cmd = "package" /\ pc = "loop"
    /\ idx > Len(todo)
    /\ Exit(0)
    /\ UNCHANGED <<Remaining, disk, locals, idx, dest, report, oplog>>

\* a resolver error that package catches as fetch does
PackageResolveError_Skip ==
    /\ cmd = "package" /\ pc = "loop"
    /\ idx <= Len(todo)
    /\ ResolveModDest(Mod, global_dest, cwd).raised
    /\ Continue("resolve_error", None, "none")
    /\ UNCHANGED <<Remaining, disk, locals, exit_code, oplog>>

\* resolve_mod_dest raised and nothing catches it: the process dies
PackageResolveError ==
    /\ cmd = "package" /\ pc = "loop"
    /\ idx <= Len(todo)
    /\ ResolveModDest(Mod, global_dest, cwd).raised
    /\ Exit(1)
    /\ UNCHANGED <<Remaining, disk, locals, idx, dest, report, oplog>>

\* os.path.isdir(source) is false
PackageMissing ==
    /\ cmd = "package" /\ pc = "loop"
    /\ idx <= Len(todo)
    /\ ~ResolveModDest(Mod, global_dest, cwd).raised
    /\ ~IsDir(disk, ResolveModDest(Mod, global_dest, cwd).value)
    /\ report' = [report EXCEPT ![idx] =
                    [msg |-> "missing", version |-> None, seen |-> "none",
                     dest |-> Some(ResolveModDest(Mod, global_dest, cwd).value)]]
    /\ idx' = idx + 1
    /\ UNCHANGED <<Remaining, disk, locals, dest, pc, exit_code, oplog>>

PackageSource ==
    /\ cmd = "package" /\ pc = "loop"
    /\ idx <= Len(todo)
    /\ ~ResolveModDest(Mod, global_dest, cwd).raised
    /\ IsDir(disk, ResolveModDest(Mod, global_dest, cwd).value)
    /\ dest' = Some(ResolveModDest(Mod, global_dest, cwd).value)
    /\ pc' = "fmtk"
    /\ UNCHANGED <<Remaining, disk, locals, idx, exit_code, report, oplog>>

\* a command that gives up at the first module fmtk fails on
PackageRun_StopOnFailure ==
    /\ cmd = "package" /\ pc = "fmtk"
    /\ \E code \in FmtkCodes :
          /\ Log("fmtk", {}, Some(code), code = 0)
          /\ IF code = 0
             THEN /\ Continue("packaged", None, "none")
                  /\ exit_code' = exit_code
             ELSE /\ report' = [report EXCEPT ![idx] =
                                  [msg |-> "failed", version |-> None,
                                   seen |-> "none", dest |-> dest]]
                  /\ Exit(1)
                  /\ UNCHANGED <<idx, dest>>
          /\ packaged' = IF code = 0 THEN packaged \cup {Val(Mod["name"])} ELSE packaged
    /\ UNCHANGED <<env, bundling, installing, disk, disk0, made, locals, run, prev_report, result>>

\* run_fmtk_command(["package", "--outdir", ...], cwd=source); the operation
\* is logged with the exit code in the place of the ref
PackageRun ==
    /\ cmd = "package" /\ pc = "fmtk"
    /\ \E code \in FmtkCodes :
          /\ Log("fmtk", {}, Some(code), code = 0)
          /\ Continue(IF code = 0 THEN "packaged" ELSE "failed", None, "none")
          /\ packaged' = IF code = 0 THEN packaged \cup {Val(Mod["name"])} ELSE packaged
    /\ UNCHANGED <<env, bundling, installing, disk, disk0, made, locals, exit_code, run, prev_report, result>>

NextPackage ==
    \/ PackageStartExit
    \/ PackageStart
    \/ PackageReturn
    \/ PackageResolveError
    \/ PackageMissing
    \/ PackageSource
    \/ PackageRun

Next == NextFetch \/ NextPackage

Spec == Init /\ [][Next]_vars

\* the statements of a running command are executed one after the other
SpecFair == Spec /\ WF_vars(Next)

----------------------------------------------------------------------------
(* Running fetch again: a new process, the same configuration and          *)
(* arguments, the disk as the run before left it.                          *)

MaxRuns == 2

Rerun ==
    /\ cmd = "fetch" /\ pc = "exited"
    /\ run < MaxRuns
    /\ run' = run + 1
    /\ prev_report' = report
    /\ disk0' = disk
    /\ modules' = << >> /\ todo' = << >>
    /\ global_dest' = None /\ global_update' = None
    /\ idx' = 0 /\ dest' = None /\ pc' = "start" /\ exit_code' = None
    /\ report' = << >> /\ oplog' = << >>
    /\ UNCHANGED <<env, bundling, installing, disk, made, packaged, outdir, result>>

\* module i of the configurations fetch is run twice on
TwiceCases(i) ==
    {[mod |-> BareMod(i) @@ ("dest" :> Some(<<Sep, "x">>)), at |-> Absent],
     [mod |-> BareMod(i), at |-> Absent],
     [mod |-> BareMod(i), at |-> ForeignCopy],
     [mod |-> BareMod(i), at |-> OwnCopy(i, Info(ModName(i), V1))],
     [mod |-> BareMod(i) @@ ("branch" :> Some(Branch)) @@ ("commit" :> Some(Commit)),
      at |-> OwnCopy(i, Info(ModName(i), V1))]}
    \cup {[mod |-> BareMod(i) @@ ("update" :> Some(FALSE)), at |-> g] :
            g \in OwnCopies(i)}

InitTwice ==
    /\ \/ \E cases \in CaseSeqs([i \in 1..NMods |-> TwiceCases(i)], NMods),
             update \in UpdateSettings :
                InitCommand("fetch", cases, <<None, Some(<<Sep, "d">>)>>, update)
       \/ /\ cmd = "fetch" /\ config = None /\ arg_dest = None
          /\ disk = NoKeys /\ disk0 = NoKeys
    /\ arg_modname = None
    /\ arg_outdir = None
    /\ InitLocals

NextTwice == NextFetch \/ Rerun

SpecTwice == InitTwice /\ [][NextTwice]_vars

----------------------------------------------------------------------------
(* Properties of cmd_fetch and cmd_package *)

\* the operations on module i of the run so far, in order
OpsOf(i) == SelectSeq(oplog, LAMBDA o : o.mod = i)

RepoOf(i) == Val(todo[i]["repo"])
NameOf(i) == Val(todo[i]["name"])

\* where module i is, once the loop has resolved it
DestOf(i) ==
    IF i < idx THEN report[i].dest ELSE IF i = idx THEN dest ELSE None

\* the loop is past every module and the command has returned
BatchDone == pc = "exited" /\ todo # << >> /\ idx > Len(todo)

\* the per-module messages that report a module as not usable
FailureMsgs ==
    {"resolve_error", "not_git", "mismatch", "error", "failed", "found_invalid",
     "missing"}

\* what is at a path is a working copy with a remote URL that is the
\* repository's, letter case, trailing slashes and a .git suffix aside
Recognized(st, url) ==
    /\ st.kind = "git"
    /\ \E r \in DOMAIN st.remotes : \E u \in st.remotes[r] :
          NormalizeUrl(u) = NormalizeUrl(url)

\* the path holds something, and not a working copy of the repository
Unrecognized(st, url) == st.kind # "absent" /\ ~Recognized(st, url)

\* C1: once fetch is in its loop the command always comes to its end with
\* exit status 0 and a message for every module it was to process: no
\* module's error (resolver, wrong directory, VCS, validation) keeps the
\* loop from the modules after it.
C1_FetchAttemptsEveryModule ==
    (cmd = "fetch" /\ pc = "loop")
        ~> (/\ pc = "exited" /\ exit_code = Some(0)
            /\ \A i \in 1..Len(todo) : report[i].msg # "none")

\* the first module's clone failed and the second one was still fetched
C1_Witness ==
    /\ cmd = "fetch" /\ BatchDone /\ Len(todo) = 2
    /\ report[1].msg = "error" /\ report[1].seen = "absent"
    /\ report[2].msg = "done"

\* C2: a module whose destination held, when fetch started, a plain
\* directory or a working copy with no remote URL of the module's repository
\* gets the not-a-git-repo or the mismatch message, no operation at all, and
\* the destination stays as it was.
C2_UnrecognizedDestUntouched ==
    cmd = "fetch" =>
        \A i \in 1..Len(todo) :
            (DestOf(i) # None
             /\ Unrecognized(DiskAt(disk0, Val(DestOf(i))), RepoOf(i)))
            => /\ OpsOf(i) = << >>
               /\ DiskAt(disk, Val(DestOf(i))) = DiskAt(disk0, Val(DestOf(i)))
               /\ i < idx => report[i].msg \in {"not_git", "mismatch"}
               /\ i = idx => pc = "inspect"

\* both kinds met in one run
C2_Witness ==
    /\ cmd = "fetch" /\ BatchDone
    /\ \E i, j \in 1..Len(todo) :
          /\ report[i].msg = "not_git"
          /\ DiskAt(disk, Val(report[i].dest)) = PlainDir
          /\ report[j].msg = "mismatch"
          /\ DiskAt(disk, Val(report[j].dest)) = ForeignCopy

\* update is disabled for module i: by its own key, or by the global one
UpdateDisabled(i) ==
    IF "update" \in DOMAIN todo[i] THEN todo[i]["update"] = Some(FALSE)
    ELSE Val(config).update = Some(FALSE)

ValidManifest(m, name) ==
    /\ m.tag = "object"
    /\ {"name", "version"} \subseteq DOMAIN m.fields
    /\ m.fields["name"] = name

\* C3: a module with update disabled whose destination held a working copy
\* of its repository when the run started gets no operation (no clone, fetch,
\* pull or checkout), the working copy stays as it was, the message is the
\* found one with the manifest's version when the manifest is valid; and a
\* second run right after gives the module the same message and version.
C3_DisabledUpdateTouchesNothing ==
    cmd = "fetch" =>
        \A i \in 1..Len(todo) :
            (i < idx /\ report[i].dest # None /\ UpdateDisabled(i)
             /\ Recognized(DiskAt(disk0, Val(report[i].dest)), RepoOf(i)))
            => LET d == Val(report[i].dest)
                   m == DiskAt(disk0, d).info
               IN  /\ OpsOf(i) = << >>
                   /\ DiskAt(disk, d) = DiskAt(disk0, d)
                   /\ report[i].msg \in {"found", "found_invalid", "error"}
                   /\ report[i].msg = "found" <=> ValidManifest(m, NameOf(i))
                   /\ report[i].msg = "found"
                        => report[i].version = Some(m.fields["version"])
                   /\ (run > 1 /\ prev_report[i].seen = "match")
                        => report[i] = prev_report[i]

\* the second run found the module as the first one did
C3_Witness ==
    /\ cmd = "fetch" /\ run = 2 /\ BatchDone
    /\ \E i \in 1..Len(todo) :
          /\ UpdateDisabled(i) /\ OpsOf(i) = << >>
          /\ report[i].msg = "found" /\ report[i].version = Some(V1)
          /\ prev_report[i] = report[i]

Pinned(i) == TruthyStr(Get(todo[i], "commit"))
IsPin(o, i) == o.op = "checkout" /\ o.ref = Get(todo[i], "commit")
OpNames(ops) == [k \in 1..Len(ops) |-> ops[k].op]

\* C4: for a module with a commit, the checkout of that commit is never
\* followed by another operation on the module, and when every operation of
\* the clone or the update went through, it is the last of them: after the
\* clone, or after the fetch and, with a branch, the branch checkout and the
\* pull, so the working copy is at the commit when it is validated.
C4_CommitCheckoutLast ==
    cmd = "fetch" =>
        \A i \in 1..Len(todo) :
            Pinned(i) =>
                LET ops == OpsOf(i)
                IN  /\ \A k \in 1..Len(ops) : IsPin(ops[k], i) => k = Len(ops)
                    /\ (ops # << >> /\ \A k \in 1..Len(ops) : ops[k].ok)
                        /\ (i < idx \/ pc = "validate")
                       => /\ IsPin(Last(ops), i)
                          /\ OpNames(ops) \in
                                {<<"clone", "checkout">>, <<"fetch", "checkout">>,
                                 <<"fetch", "checkout", "pull", "checkout">>}
                          /\ Len(ops) = 4 <=>
                                (ops[1].op = "fetch" /\ TruthyStr(Get(todo[i], "branch")))
                          /\ DiskAt(disk, Val(DestOf(i))).head = Get(todo[i], "commit")

\* an update with both a branch and a commit
C4_Witness ==
    /\ cmd = "fetch"
    /\ \E i \in 1..Len(todo) :
          /\ i < idx /\ Pinned(i) /\ report[i].msg = "done"
          /\ OpNames(OpsOf(i)) = <<"fetch", "checkout", "pull", "checkout">>

\* C5: a module is reported done only when the info.json at its destination
\* is there, is a JSON object with name and version, and names the module,
\* and then with that version; after a clone or an update that went through,
\* any other info.json gives the failed or the error message.
C5_DoneMeansValidManifest ==
    cmd = "fetch" =>
        \A i \in 1..Len(todo) :
            (i < idx /\ report[i].dest # None) =>
                LET m == DiskAt(disk, Val(report[i].dest)).info
                    ops == OpsOf(i)
                IN  /\ report[i].msg = "done"
                        => /\ ValidManifest(m, NameOf(i))
                           /\ report[i].version = Some(m.fields["version"])
                           /\ ops # << >>
                    /\ (ops # << >> /\ \A k \in 1..Len(ops) : ops[k].ok)
                        => /\ report[i].msg \in {"done", "failed", "error"}
                           /\ report[i].msg = "done" <=> ValidManifest(m, NameOf(i))

\* one module's manifest names another mod, one has no version, one is valid
C5_Witness ==
    /\ cmd = "fetch" /\ run = 1
    /\ \E i, j \in 1..Len(todo) :
          /\ i < idx /\ report[i].msg = "failed" /\ OpsOf(i) # << >>
          /\ DiskAt(disk, Val(report[i].dest)).info
                \in {Info(<<"z">>, V1), ObjectInfo([name |-> NameOf(i)])}
          /\ j < idx /\ report[j].msg = "done" /\ report[j].version = Some(V2)

\* module i's own dest is an absolute path
AbsDest(i) ==
    /\ TruthyStr(Get(todo[i], "dest"))
    /\ IsAbs(Val(Get(todo[i], "dest")))

\* C6 as stated: with an absolute per-module dest among the modules, fetch
\* and package do nothing to any module: no operation, no directory made,
\* nothing packaged, the disk as it was.
C6_AbortsBeforeAnyMutation ==
    (cmd \in {"fetch", "package"} /\ \E i \in 1..Len(todo) : AbsDest(i))
    => /\ oplog = << >>
       /\ made = {} /\ packaged = {}
       /\ disk = disk0

\* C6 as the code has it: a module with an absolute dest never gets an
\* operation.  fetch gives it the resolver's error message and goes on, to
\* return with status 0 and a message for every module; package makes the
\* output directory, handles the modules before it, and dies at it with
\* status 1, this module and the ones after it untouched.
C6_AbsoluteDestStopsOnlyThere ==
    \A i \in 1..Len(todo) :
        (cmd \in {"fetch", "package"} /\ AbsDest(i))
        => /\ OpsOf(i) = << >>
           /\ NameOf(i) \notin packaged
           /\ cmd = "fetch"
                => /\ i < idx => report[i].msg = "resolve_error"
                   /\ pc = "exited"
                        => /\ exit_code = Some(0)
                           /\ \A j \in 1..Len(todo) : report[j].msg # "none"
           /\ cmd = "package"
                => /\ idx <= i
                   /\ made = {Val(outdir)}
                   /\ pc = "exited"
                        => /\ exit_code = Some(1)
                           /\ AbsDest(idx)
                           /\ \A j \in 1..Len(todo) :
                                 report[j].msg = "none" <=> j >= idx
                           /\ \A j \in idx..Len(todo) : OpsOf(j) = << >>

\* package died at its second module after it had packaged the first
C6_Witness ==
    /\ cmd = "package" /\ pc = "exited" /\ exit_code = Some(1)
    /\ Len(todo) = 2 /\ idx = 2 /\ AbsDest(2)
    /\ report[1].msg = "packaged" /\ NameOf(1) \in packaged
    /\ made # {}

\* C7 as stated: a batch that went through all its modules with one of them
\* failed ends with an exit status other than the 0 of a batch without a
\* failure (nothing is printed after the loop, so the status is all there
\* is to tell them apart).
C7_FailureChangesExitStatus ==
    (cmd \in {"fetch", "package"} /\ BatchDone
     /\ \E i \in 1..Len(todo) : report[i].msg \in FailureMsgs)
    => exit_code # Some(0)

\* C7 as the code has it: a batch that went through all its modules has a
\* message for each of them and returns with exit status 0, whether or not
\* a module failed.
C7_BatchAlwaysExitsZero ==
    (cmd \in {"fetch", "package"} /\ BatchDone)
    => /\ exit_code = Some(0)
       /\ \A i \in 1..Len(todo) : report[i].msg # "none"

\* a batch with a failed module and one that was fine
C7_Witness ==
    /\ cmd \in {"fetch", "package"} /\ BatchDone /\ exit_code = Some(0)
    /\ \E i, j \in 1..Len(todo) :
          /\ report[i].msg \in FailureMsgs
          /\ report[j].msg \in {"done", "found", "packaged"}

----------------------------------------------------------------------------
(* The functions that read a module record or the disk, on their own: every *)
(* input of a bounded set, one call each.                                   *)

\* the state of a process that is about to make the one call c
InitCall(c) ==
    /\ NoBundling /\ NoInstalling
    /\ cmd = c /\ pc = "call" /\ result = None
    /\ config = None /\ arg_dest = None /\ arg_outdir = None /\ arg_modname = None
    /\ disk0 = disk /\ made = {} /\ packaged = {}
    /\ todo = << >> /\ outdir = None
    /\ idx = 0 /\ exit_code = None
    /\ report = << >> /\ oplog = << >> /\ run = 1 /\ prev_report = << >>

\* what a call leaves as it was
CallFrame ==
    <<env, bundling, installing, disk, disk0, made, packaged, locals, idx, dest, exit_code,
      report, oplog, run, prev_report>>

\* the update key of a module: none, one with no value (YAML null), a boolean
UpdateKeys == {NoKeys} \cup {("update" :> o) : o \in {None, Some(TRUE), Some(FALSE)}}

UpdateMods == {[name |-> Some(n)] @@ u : n \in ModNames, u \in UpdateKeys}

InitShouldUpdate ==
    /\ modules \in {<<m>> : m \in UpdateMods}
    /\ global_update \in {None, Some(TRUE), Some(FALSE)}
    /\ global_dest = None /\ dest = None /\ cwd = Cwd /\ disk = NoKeys
    /\ InitCall("should_update_mod")

CallShouldUpdate ==
    /\ cmd = "should_update_mod"
    /\ pc = "call"
    /\ result' = Some(ShouldUpdateMod(modules[1], global_update))
    /\ pc' = "returned"
    /\ UNCHANGED CallFrame

\* the last index of character c in p, 0 when there is none (str.rfind)
RFind(p, c) ==
    LET at == {i \in 1..Len(p) : p[i] = c}
    IN  IF at = {} THEN 0 ELSE CHOOSE i \in at : \A j \in at : j <= i

\* os.path.basename
BaseName(p) == SubSeq(p, RFind(p, Sep) + 1, Len(p))

\* os.path.splitext: <<root, ext>>; the dots a name starts with are no extension
SplitExt(p) ==
    LET sepIndex == RFind(p, Sep)
        dotIndex == RFind(p, ".")
    IN  IF dotIndex > sepIndex /\ \E i \in (sepIndex + 1)..(dotIndex - 1) : p[i] # "."
        THEN <<SubSeq(p, 1, dotIndex - 1), SubSeq(p, dotIndex, Len(p))>>
        ELSE <<p, << >> >>

\* A zip archive on the disk.  folders: the name of each top-level folder of
\* the archive -> the info.json in that folder (NoInfo: the folder has none).
ZipFile(folders) ==
    [kind |-> "zip", remotes |-> NoKeys, head |-> None,
     info |-> [tag |-> "zip", fields |-> folders]]

\* a directory with info.json m that is no working copy
ModDir(m) == [kind |-> "dir", remotes |-> NoKeys, head |-> None, info |-> m]

\* zipfile.is_zipfile
IsZipFile(d, path) == DiskAt(d, path).kind = "zip"

\* z.open(f"{zip_base}/info.json") and json.load of it: NoInfo stands for the
\* KeyError of a member that is not in the archive
ZipMember(d, path, zip_base) ==
    LET folders == DiskAt(d, path).info.fields
    IN  IF zip_base \in DOMAIN folders THEN folders[zip_base] ELSE NoInfo

\* load_info_json that reports whatever goes wrong in an archive as absent
LoadInfoJsonAt_Lenient(d, path) ==
    IF IsDir(d, path) THEN LoadInfoJson(DiskAt(d, path).info)
    ELSE IF IsZipFile(d, path)
    THEN LET zip_base == SplitExt(BaseName(path))[1]
             loaded == LoadInfoJson(ZipMember(d, path, zip_base))
         IN  IF loaded.raised THEN Return(None) ELSE loaded
    ELSE Raise("ValueError")

\* load_info_json(path) on disk d
LoadInfoJsonAt(d, path) ==
    IF IsDir(d, path) THEN LoadInfoJson(DiskAt(d, path).info)
    ELSE IF IsZipFile(d, path)
    THEN LET zip_base == SplitExt(BaseName(path))[1]
         IN  LoadInfoJson(ZipMember(d, path, zip_base))
    ELSE Raise("ValueError")

\* the paths load_info_json is called on: <root>/b_1.0.zip, <root>/.zip, <root>/b
ZipPath == <<Sep, "s", Sep, "b", "_", "1", ".", "0", ".", "z", "i", "p">>
DotPath == <<Sep, "s", Sep, ".", "z", "i", "p">>
BarePath == <<Sep, "s", Sep, "b">>
LoadPaths == {ZipPath, DotPath, BarePath}

\* the top-level folders an archive may have
ZipFolders == {<<"b", "_", "1", ".", "0">>, <<"b">>, <<".", "z", "i", "p">>}

\* the info.json of a directory or of a folder of an archive
LoadInfos ==
    {NoInfo, GarbageInfo, ListInfo, ObjectInfo([name |-> <<"b">>]),
     ObjectInfo([version |-> V1]), Info(<<"b">>, V1)}

\* what is at the path: nothing, a file that is no archive, a directory, a
\* working copy, an archive
LoadNodes ==
    {Absent, PlainFile}
    \cup {ModDir(m) : m \in LoadInfos}
    \cup {WorkingCopy(NoKeys, None, m) : m \in {NoInfo, Info(<<"b">>, V1)}}
    \cup {ZipFile(f) : f \in UNION {[fs -> LoadInfos \ {ListInfo}] : fs \in SUBSET ZipFolders}}

InitLoadInfoJson ==
    /\ \E path \in LoadPaths, node \in LoadNodes :
          /\ disk = (path :> node)
          /\ modules = <<[name |-> Some(<<"b">>)]>>
          /\ dest = Some(path)
    /\ global_dest = None /\ global_update = None /\ cwd = Cwd
    /\ InitCall("load_info_json")

\* load_info_json(dest)
CallLoadInfoJson ==
    /\ cmd = "load_info_json"
    /\ pc = "call"
    /\ result' = Some(LoadInfoJsonAt(disk, Val(dest)))
    /\ pc' = "returned"
    /\ UNCHANGED CallFrame

----------------------------------------------------------------------------
(* find_mod_assets_or_sources *)

\* an exception whose message lists names
RaiseNaming(e, names) == [raised |-> TRUE, value |-> e, names |-> names]

\* mod.get("bundle_zip", True), as the condition of an if
BundleZip(mod) == IF "bundle_zip" \in DOMAIN mod THEN Bool(mod["bundle_zip"]) ELSE TRUE

ZipExt == <<".", "z", "i", "p">>

\* glob.glob(os.path.join(source_path, f"{modname}_*.zip")): the entries of
\* the directory source_path whose name starts with modname_ and ends in .zip
GlobZips(d, source_path, modname) ==
    LET stem == PathJoin(source_path, modname \o <<"_">>)
    IN  {p \in DOMAIN d :
            /\ Exists(d, p)
            /\ StartsWith(p, stem)
            /\ Len(p) >= Len(stem) + Len(ZipExt)
            /\ EndsWith(p, ZipExt)
            /\ \A i \in (Len(stem) + 1)..Len(p) : p[i] # Sep}

\* the body of the try in the loop over the zips: TRUE when the zip is
\* appended to valid_zips.  validate_mod given None loads again, gets None
\* again and raises FileNotFoundError, which the except clause skips.
ValidZip(modname, d, zipfile_path) ==
    LET info == LoadInfoJsonAt(d, zipfile_path)
    IN  IF info.raised THEN FALSE
        ELSE IF info.value = None THEN FALSE
        ELSE Val(info.value)["name"] = modname

\* the asset of one module that takes the first valid zip when there are more
FindAsset_AnyValid(mod, source_path, d) ==
    LET modname == Val(mod["name"])
        mod_dir == PathJoin(source_path, modname)
        valid_zips == {z \in GlobZips(d, source_path, modname) : ValidZip(modname, d, z)}
    IN  IF ~BundleZip(mod)
        THEN IF ~IsDir(d, mod_dir) THEN Raise("FileNotFoundError")
             ELSE LET ok == ValidateMod(modname, DiskAt(d, mod_dir).info)
                  IN  IF ok.raised THEN ok
                      ELSE IF ~ok.value THEN Raise("ValueError")
                      ELSE Return(mod_dir)
        ELSE IF valid_zips = {} THEN Raise("FileNotFoundError")
        ELSE Return(CHOOSE z \in valid_zips : TRUE)

\* one turn of the loop over the modules: the asset of mod, or what is raised
FindAsset(mod, source_path, d) ==
    LET modname == Val(mod["name"])
        mod_dir == PathJoin(source_path, modname)
        valid_zips == {z \in GlobZips(d, source_path, modname) : ValidZip(modname, d, z)}
    IN  IF ~BundleZip(mod)
        THEN IF ~IsDir(d, mod_dir) THEN Raise("FileNotFoundError")
             ELSE LET ok == ValidateMod(modname, DiskAt(d, mod_dir).info)
                  IN  IF ok.raised THEN ok
                      ELSE IF ~ok.value THEN Raise("ValueError")
                      ELSE Return(mod_dir)
        ELSE IF valid_zips = {} THEN Raise("FileNotFoundError")
        ELSE IF Cardinality(valid_zips) > 1
             THEN RaiseNaming("ValueError", {BaseName(z) : z \in valid_zips})
        ELSE Return(CHOOSE z \in valid_zips : TRUE)

\* find_mod_assets_or_sources(mods, source_path): the dict name -> path, or
\* what the first module without an asset raised
FindModAssetsOrSources(mods, source_path, d) ==
    LET failed == {i \in 1..Len(mods) : FindAsset(mods[i], source_path, d).raised}
        names == {Val(mods[i]["name"]) : i \in 1..Len(mods)}
        last(n) == CHOOSE i \in 1..Len(mods) :
                      /\ Val(mods[i]["name"]) = n
                      /\ \A j \in 1..Len(mods) : Val(mods[j]["name"]) = n => j <= i
    IN  IF failed # {}
        THEN FindAsset(mods[CHOOSE i \in failed : \A j \in failed : i <= j], source_path, d)
        ELSE Return([n \in names |-> FindAsset(mods[last(n)], source_path, d).value])

\* The search roots discovery is called on.  Module a is bundled as a
\* directory, module b as a zip.
SearchRoot == <<Sep, "s">>
DirMod == [name |-> Some(<<"a">>), bundle_zip |-> Some(FALSE)]
ArchiveMods == {[name |-> Some(<<"b">>)], [name |-> Some(<<"b">>), bundle_zip |-> Some(TRUE)]}

DirModPath == <<Sep, "s", Sep, "a">>
Zip2Path == <<Sep, "s", Sep, "b", "_", "2", ".", "z", "i", "p">>
EmptyStarPath == <<Sep, "s", Sep, "b", "_", ".", "z", "i", "p">>
NestedPath == <<Sep, "s", Sep, "n", Sep, "b", "_", "3", ".", "z", "i", "p">>
OtherPath == <<Sep, "s", Sep, "b", "b", "_", "1", ".", "z", "i", "p">>

\* a zip whose one folder has info.json m
ZipOf(folder, m) == ZipFile(folder :> m)

\* what may be at each of these paths
DiscoverNodes ==
    (DirModPath :> {Absent, ModDir(NoInfo), ModDir(Info(<<"z">>, V1)), ModDir(Info(<<"a">>, V1))})
    @@ (ZipPath :> {Absent, PlainFile,
                  ZipOf(<<"b", "_", "1", ".", "0">>, Info(<<"b">>, V1)),
                  ZipOf(<<"b">>, Info(<<"b">>, V1)),
                  ZipOf(<<"b", "_", "1", ".", "0">>, GarbageInfo),
                  ZipOf(<<"b", "_", "1", ".", "0">>, ObjectInfo([name |-> <<"b">>])),
                  ZipOf(<<"b", "_", "1", ".", "0">>, Info(<<"z">>, V1))})
    @@ (Zip2Path :> {Absent,
                   ZipOf(<<"b", "_", "2">>, Info(<<"b">>, V2)),
                   ZipOf(<<"b", "_", "2">>, Info(<<"B">>, V2)),
                   ModDir(Info(<<"b">>, V2))})
    @@ (EmptyStarPath :> {Absent, ZipOf(<<"b", "_">>, Info(<<"b">>, V1))})
    @@ (NestedPath :> {Absent, ZipOf(<<"b", "_", "3">>, Info(<<"b">>, V1))})
    @@ (OtherPath :> {Absent, ZipOf(<<"b", "b", "_", "1">>, Info(<<"b">>, V1))})

\* the disks: one of its nodes at every path, the search root a directory
DiscoverDisks ==
    {(SearchRoot :> PlainDir) @@ (DirModPath :> a) @@ (ZipPath :> b) @@ (Zip2Path :> c)
     @@ (EmptyStarPath :> e) @@ (NestedPath :> n) @@ (OtherPath :> o) :
        a \in DiscoverNodes[DirModPath], b \in DiscoverNodes[ZipPath],
        c \in DiscoverNodes[Zip2Path], e \in DiscoverNodes[EmptyStarPath],
        n \in DiscoverNodes[NestedPath], o \in DiscoverNodes[OtherPath]}

InitDiscover ==
    /\ disk \in DiscoverDisks
    /\ \E b \in ArchiveMods : modules \in {<<b>>, <<DirMod, b>>, <<b, DirMod>>}
    /\ global_dest = Some(SearchRoot) /\ dest = None
    /\ global_update = None /\ cwd = Cwd
    /\ InitCall("find_mod_assets_or_sources")

\* find_mod_assets_or_sources(modules, global_dest)
CallFindModAssets ==
    /\ cmd = "find_mod_assets_or_sources"
    /\ pc = "call"
    /\ result' = Some(FindModAssetsOrSources(modules, Val(global_dest), disk))
    /\ pc' = "returned"
    /\ UNCHANGED CallFrame

----------------------------------------------------------------------------
(* repo_matches_expected_url on its own *)

\* the two forms of a repository's URL: https://<host>/<path>, git@<host>:<path>
Https == <<"h", "t", "t", "p", "s", ":", "/", "/">>
GitAt == <<"g", "i", "t", "@">>

\* the repo a module declares: repository a on host h, in either form
ExpectedUrls ==
    {Https \o <<"h", "/", "a">>, GitAt \o <<"h", ":", "a", ".", "g", "i", "t">>}

\* the URLs a remote may have: repository a on host h written in several ways,
\* and repository b
MatchUrls ==
    {Https \o <<"h", "/", "a">>,
     Https \o <<"h", "/", "a", "/">>,
     Https \o <<"h", "/", "a", ".", "g", "i", "t">>,
     Https \o <<"H", "/", "A", ".", "g", "i", "t", "/">>,
     GitAt \o <<"h", ":", "a">>,
     GitAt \o <<"h", ":", "a", ".", "g", "i", "t">>,
     Https \o <<"h", "/", "b">>,
     GitAt \o <<"h", ":", "b", ".", "g", "i", "t">>}

\* the remotes of the working copy: none, origin alone (with one URL or with a
\* fetch and a push URL), origin and fork
MatchRemotes ==
    {NoKeys}
    \cup {[origin |-> {u, v}] : u \in MatchUrls, v \in MatchUrls}
    \cup {[origin |-> {u}, fork |-> {v}] : u \in MatchUrls, v \in MatchUrls}

MatchPath == <<Sep, "s", Sep, "a">>

InitRepoMatches ==
    /\ \E remotes \in MatchRemotes, expected_url \in ExpectedUrls :
          /\ disk = (MatchPath :> WorkingCopy(remotes, None, NoInfo))
          /\ modules = <<[name |-> Some(<<"a">>), repo |-> Some(expected_url)]>>
    /\ dest = Some(MatchPath)
    /\ global_dest = None /\ global_update = None /\ cwd = Cwd
    /\ InitCall("repo_matches_expected_url")

\* repo_matches_expected_url(Repo(dest), mod["repo"])
CallRepoMatches ==
    /\ cmd = "repo_matches_expected_url"
    /\ pc = "call"
    /\ result' = Some(RepoMatchesExpectedUrl(disk[Val(dest)].remotes,
                                             Val(modules[1]["repo"])))
    /\ pc' = "returned"
    /\ UNCHANGED CallFrame

InitCalls == InitShouldUpdate \/ InitLoadInfoJson \/ InitDiscover \/ InitRepoMatches

NextCalls ==
    CallShouldUpdate \/ CallLoadInfoJson \/ CallFindModAssets \/ CallRepoMatches

SpecCalls == InitCalls /\ [][NextCalls]_vars

----------------------------------------------------------------------------
(* The claims about the single calls *)

CallReturned(c) == cmd = c /\ pc = "returned"

\* C12: the per-module update flag is tri-state: a flag that is set decides,
\* a flag that is unset or has no value leaves the decision to the global
\* setting, and with neither set update is enabled.
C12_TriStateUpdateFlag ==
    CallReturned("should_update_mod") =>
        LET flag == Get(modules[1], "update")
        IN  Val(result) = IF flag # None THEN Val(flag)
                          ELSE IF global_update # None THEN Val(global_update)
                          ELSE TRUE

\* an update key with no value and the global setting on: update is refused
C12_Witness ==
    /\ CallReturned("should_update_mod")
    /\ "update" \in DOMAIN modules[1] /\ modules[1]["update"] = None
    /\ global_update = Some(TRUE)
    /\ Val(result) = FALSE

\* The folder of the archive where load_info_json expects info.json, by path.
ArchiveBasename ==
    (ZipPath :> <<"b", "_", "1", ".", "0">>)
    @@ (Zip2Path :> <<"b", "_", "2">>)
    @@ (<<Sep, "s", Sep, "b", "_", "1", ".", "2", ".", "0", ".", "z", "i", "p">>
            :> <<"b", "_", "1", ".", "2", ".", "0">>)
    @@ (<<Sep, "s", Sep, "FactorioAccess", "_", "1", ".", "2", ".", "0", ".", "z", "i", "p">>
            :> <<"FactorioAccess", "_", "1", ".", "2", ".", "0">>)
    @@ (EmptyStarPath :> <<"b", "_">>)
    @@ (DotPath :> <<".", "z", "i", "p">>)
    @@ (BarePath :> <<"b">>)

\* the info.json at its expected location for the directory or archive at
\* path; NoInfo when there is none there
ManifestIn(d, path) ==
    LET node == DiskAt(d, path)
    IN  IF node.kind \in {"dir", "git"} THEN node.info
        ELSE IF node.kind = "zip" /\ ArchiveBasename[path] \in DOMAIN node.info.fields
             THEN node.info.fields[ArchiveBasename[path]]
        ELSE NoInfo

ManifestAt(path) == ManifestIn(disk, path)

Loadable(path) == DiskAt(disk, path).kind \in {"dir", "git", "zip"}

Malformed(m) ==
    \/ m.tag \in {"garbage", "notobject"}
    \/ m.tag = "object" /\ ~({"name", "version"} \subseteq DOMAIN m.fields)

\* C13: load_info_json returns None exactly when the path is a directory or
\* an archive and there is no info.json at the expected location; it raises
\* exactly when the path is neither, or the info.json there does not parse,
\* is no object or lacks name or version; in every other case it returns the
\* manifest.  Malformed content is never reported as None.
C13_ThreeOutcomes ==
    CallReturned("load_info_json") =>
        LET path == Val(dest)
            m == ManifestAt(path)
            missing == Loadable(path) /\ m.tag = "absent"
            hard == ~Loadable(path) \/ Malformed(m)
            r == Val(result)
        IN  /\ (~r.raised /\ r.value = None) <=> missing
            /\ r.raised <=> hard
            /\ r.raised => r.value = "ValueError"
            /\ (~missing /\ ~hard) => r = Return(Some(m.fields))
            /\ Malformed(m) => r.raised

\* an archive with a malformed info.json in the expected folder and a good
\* one in another folder: an error, not None
C13_Witness ==
    /\ CallReturned("load_info_json")
    /\ dest = Some(ZipPath)
    /\ DiskAt(disk, ZipPath).kind = "zip"
    /\ ManifestAt(ZipPath) = GarbageInfo
    /\ <<"b">> \in DOMAIN DiskAt(disk, ZipPath).info.fields
    /\ Val(result).raised

\* the module bundled as a zip, and the entries of the search root that
\* match b_*.zip
ArchiveModName == <<"b">>
Candidates == {p \in {ZipPath, Zip2Path, EmptyStarPath} : Exists(disk, p)}

\* the candidates with a manifest, at the expected location, named b
Surviving ==
    {p \in Candidates :
        /\ ~Malformed(ManifestAt(p))
        /\ ManifestAt(p).tag = "object"
        /\ ManifestAt(p).fields["name"] = ArchiveModName}

\* the file names of the candidates
CandidateName ==
    (ZipPath :> <<"b", "_", "1", ".", "0", ".", "z", "i", "p">>)
    @@ (Zip2Path :> <<"b", "_", "2", ".", "z", "i", "p">>)
    @@ (EmptyStarPath :> <<"b", "_", ".", "z", "i", "p">>)

\* every module but b has its asset
OthersFound ==
    \A i \in 1..Len(modules) :
        modules[i] = DirMod => DiskAt(disk, DirModPath) = ModDir(Info(<<"a">>, V1))

\* C14: when the other modules have their assets, discovery for the module
\* bundled as a zip succeeds exactly when one entry of the search root that
\* matches <name>_*.zip has a manifest named as the module, whatever other
\* candidates there are, and returns that entry; with none it raises the
\* missing-asset error (FileNotFoundError), with two or more the
\* ambiguous-asset error (ValueError) that names each of them.
C14_ExactlyOneValidArchive ==
    (CallReturned("find_mod_assets_or_sources") /\ OthersFound) =>
        LET r == Val(result)
        IN  /\ ~r.raised <=> Cardinality(Surviving) = 1
            /\ ~r.raised => r.value[ArchiveModName] \in Surviving
            /\ Surviving = {} => r.raised /\ r.value = "FileNotFoundError"
            /\ Cardinality(Surviving) > 1 =>
                  /\ r.raised /\ r.value = "ValueError"
                  /\ r.names = {CandidateName[p] : p \in Surviving}

\* one good zip next to a zip with a malformed manifest and one whose
\* manifest has another name: the good one is returned
C14_Witness ==
    /\ CallReturned("find_mod_assets_or_sources")
    /\ OthersFound
    /\ ManifestAt(ZipPath) = GarbageInfo
    /\ ManifestAt(Zip2Path) = Info(<<"B">>, V2)
    /\ Surviving = {EmptyStarPath}
    /\ Val(result) = Return(ArchiveModName :> EmptyStarPath)

----------------------------------------------------------------------------
(* cmd_bundle and build_release_zip.  A name that the code spells out as a  *)
(* literal (FactorioAccess, Factorio.jkm, mods, ...) is one element of the  *)
(* path it is part of; versions and the names of zips are spelled          *)
(* character by character.                                                  *)

MainModName == <<"FactorioAccess">>
JkmFilename == <<"Factorio.jkm">>
LauncherFilename == <<"launcher.exe">>
ModlistFilename == <<"mod-list.json">>
ModsFolder == <<"mods">>

V120 == <<"1", ".", "2", ".", "0">>

\* a file that is no zip, with what it holds
DataFile(what) ==
    [kind |-> "file", remotes |-> NoKeys, head |-> None,
     info |-> [tag |-> what, fields |-> NoKeys]]

\* a mod-list.json: {"mods": entries}
ModListFile(entries) ==
    [kind |-> "file", remotes |-> NoKeys, head |-> None,
     info |-> [tag |-> "modlist", fields |-> entries]]

\* os.path.isfile
IsFile(d, path) == DiskAt(d, path).kind \in {"file", "zip"}

\* a modlist of the modules only
ModlistOf_NoBase(mods) ==
    [i \in 1..Len(mods) |-> [name |-> Val(mods[i]["name"]), enabled |-> TRUE]]

\* the modlist cmd_bundle builds: base, then the modules in their order
ModlistOf(mods) ==
    <<[name |-> <<"base">>, enabled |-> TRUE]>>
    \o [i \in 1..Len(mods) |-> [name |-> Val(mods[i]["name"]), enabled |-> TRUE]]

\* get_mod_version_or_raise(path) on disk d
GetModVersionAt(d, path) ==
    LET loaded == LoadInfoJsonAt(d, path)
    IN  IF loaded.raised THEN loaded
        ELSE IF loaded.value = None THEN Raise("FileNotFoundError")
        ELSE IF "version" \notin DOMAIN Val(loaded.value) THEN Raise("KeyError")
        ELSE Return(Val(loaded.value)["version"])

\* the first module named FactorioAccess, 0 when there is none
MainMod(mods) ==
    LET hits == {i \in 1..Len(mods) : Get(mods[i], "name") = Some(MainModName)}
    IN  IF hits = {} THEN 0 ELSE CHOOSE i \in hits : \A j \in hits : i <= j

\* bool(main_mod.get("beta", False))
IsBeta(mod) == "beta" \in DOMAIN mod /\ Bool(mod["beta"])

\* f"{main_mod.get("name")}_{"beta" if is_beta else ""}"
BundleName(mod) ==
    Val(mod["name"]) \o <<"_">> \o (IF IsBeta(mod) THEN <<"beta">> ELSE << >>)

\* str.replace of one character by another
Replace(str, old, new) == [i \in 1..Len(str) |-> IF str[i] = old THEN new ELSE str[i]]

ContentFolder(bundle_name) == bundle_name \o <<"_content">>
BundleFolder(bundle_name, bundle_version) ==
    bundle_name \o <<"_">> \o Replace(bundle_version, ".", "_")
\* computed by build_release_zip and never used
ZipName(bundle_name, bundle_version) == bundle_name \o <<"_">> \o bundle_version \o ZipExt

\* The configurations bundle is run on: module a or the main module as a
\* directory, module b as a zip.
MainDirMod == [name |-> Some(MainModName), bundle_zip |-> Some(FALSE)]
BetaDirMod == [name |-> Some(MainModName), bundle_zip |-> Some(FALSE), beta |-> Some(TRUE)]
ArchiveMod == [name |-> Some(<<"b">>)]

\* the main module with a dest of its own
ElsewhereMod ==
    [name |-> Some(MainModName), bundle_zip |-> Some(FALSE), dest |-> Some(<<"x">>)]

\* the main module bundled as its zip, which is the default
MainZipMod == [name |-> Some(MainModName)]

BundleModules ==
    {<<DirMod, ArchiveMod>>, <<MainDirMod, ArchiveMod>>, <<BetaDirMod, ArchiveMod>>,
     <<ArchiveMod, MainDirMod>>, <<ElsewhereMod, ArchiveMod>>, <<MainZipMod, ArchiveMod>>}

MainModPath == SearchRoot \o <<Sep>> \o MainModName
Zip120Path == <<Sep, "s", Sep, "b", "_", "1", ".", "2", ".", "0", ".", "z", "i", "p">>
JkmPath == SearchRoot \o <<Sep>> \o JkmFilename
LauncherPath == SearchRoot \o <<Sep>> \o LauncherFilename
ModlistPath == SearchRoot \o <<Sep>> \o ModlistFilename
FaZipPath == SearchRoot \o <<Sep>> \o MainModName \o <<"_">> \o V120 \o ZipExt

\* a mod-list.json an earlier run left
StaleModlist == ModListFile(<<[name |-> <<"base">>, enabled |-> TRUE],
                              [name |-> <<"o">>, enabled |-> FALSE]>>)

\* what may be under the search root
BundleNodes ==
    (DirModPath :> {Absent, ModDir(Info(<<"z">>, V1)), ModDir(Info(<<"a">>, V1))})
    @@ (MainModPath :> {Absent, ModDir(NoInfo), ModDir(Info(<<"z">>, V120)),
                        ModDir(Info(MainModName, V120)),
                        WorkingCopy([origin |-> {RemoteUrl(1)}], None, Info(MainModName, V120)),
                        WorkingCopy([origin |-> {RemoteUrl(1)}], None, Info(MainModName, V2))})
    @@ (FaZipPath :> {Absent,
                      ZipOf(MainModName \o <<"_">> \o V120, Info(MainModName, V120))})
    @@ (Zip120Path :> {Absent,
                       ZipOf(<<"b", "_", "1", ".", "2", ".", "0">>, Info(<<"b">>, V120)),
                       ZipOf(<<"b">>, Info(<<"b">>, V120))})
    @@ (Zip2Path :> {Absent, ZipOf(<<"b", "_", "2">>, Info(<<"b">>, V2))})
    @@ (JkmPath :> {Absent, DataFile("jkm")})
    @@ (LauncherPath :> {Absent, DataFile("exe")})
    @@ (ModlistPath :> {Absent, StaleModlist})

\* the directory of a module is there only when the module is configured
BundleDisks(mods) ==
    {(SearchRoot :> PlainDir) @@ (DirModPath :> a) @@ (MainModPath :> m)
     @@ (Zip120Path :> b) @@ (Zip2Path :> c) @@ (JkmPath :> j) @@ (LauncherPath :> l)
     @@ (ModlistPath :> o) @@ (FaZipPath :> f) :
        f \in IF \E i \in 1..Len(mods) : mods[i] = MainZipMod
               THEN BundleNodes[FaZipPath] ELSE {Absent},
        a \in IF \E i \in 1..Len(mods) : mods[i] = DirMod
               THEN BundleNodes[DirModPath] ELSE {Absent},
        m \in IF MainMod(mods) # 0 THEN BundleNodes[MainModPath] ELSE {Absent},
        b \in BundleNodes[Zip120Path], c \in BundleNodes[Zip2Path],
        j \in BundleNodes[JkmPath], l \in BundleNodes[LauncherPath],
        o \in BundleNodes[ModlistPath]}

\* --source and the default_dest of the configuration
BundleDests == {<<None, Some(SearchRoot)>>, <<Some(SearchRoot), None>>, <<None, None>>}

InitBundle ==
    /\ cmd = "bundle"
    /\ \/ \E mods \in BundleModules, dests \in BundleDests :
             /\ config = Some([modules |-> mods, default_dest |-> dests[2], update |-> None])
             /\ arg_dest = dests[1]
             /\ disk \in BundleDisks(mods)
       \/ config = None /\ arg_dest = None /\ disk = NoKeys
    /\ disk0 = disk
    /\ arg_modname = None /\ arg_outdir = None
    /\ InitLocals

\* what no step of bundle changes
BundleRest ==
    <<env, installing, disk0, made, packaged, todo, global_update, outdir, report, run,
      prev_report, result>>

\* an operation on a path and whether it went through
Did(op, path, ok) ==
    oplog' = Append(oplog, [op |-> op, mod |-> idx, path |-> Some(path),
                            urls |-> {}, ref |-> None, ok |-> ok])

\* load_config_or_exit: there is no configuration file
BundleStartExit ==
    /\ cmd = "bundle" /\ pc = "start"
    /\ config = None
    /\ Exit(1)
    /\ UNCHANGED <<BundleRest, bundling, disk, modules, global_dest, idx, dest, oplog>>

BundleStart ==
    /\ cmd = "bundle" /\ pc = "start"
    /\ config # None
    /\ modules' = Val(config).modules
    /\ global_dest' = Or(arg_dest, Val(config).default_dest)
    /\ pc' = "discover"
    /\ UNCHANGED <<BundleRest, bundling, disk, idx, dest, exit_code, oplog>>

\* find_mod_assets_or_sources raised: a ValueError is caught and answered by
\* sys.exit(1), anything else (FileNotFoundError; the TypeError of
\* os.path.join when there is no default_dest) ends the process as an
\* uncaught exception, exit status 1
BundleDiscoverFails ==
    /\ cmd = "bundle" /\ pc = "discover"
    /\ \/ global_dest = None
       \/ global_dest # None /\ FindModAssetsOrSources(modules, Val(global_dest), disk).raised
    /\ Exit(1)
    /\ UNCHANGED <<BundleRest, bundling, disk, modules, global_dest, idx, dest, oplog>>

\* a discovery that goes on although an asset was not found
BundleDiscover_Anyway ==
    /\ cmd = "bundle" /\ pc = "discover"
    /\ global_dest # None
    /\ LET found == {i \in 1..Len(modules) : ~FindAsset(modules[i], Val(global_dest), disk).raised}
       IN  mod_assets' = [n \in {Val(modules[i]["name"]) : i \in found} |->
                            FindAsset(modules[CHOOSE i \in found : Val(modules[i]["name"]) = n],
                                      Val(global_dest), disk).value]
    /\ pc' = "jkm"
    /\ UNCHANGED <<BundleRest, fa_version, tmpdirs, zip_path, disk, modules,
                   global_dest, idx, dest, exit_code, oplog>>

BundleDiscover ==
    /\ cmd = "bundle" /\ pc = "discover"
    /\ global_dest # None
    /\ ~FindModAssetsOrSources(modules, Val(global_dest), disk).raised
    /\ mod_assets' = FindModAssetsOrSources(modules, Val(global_dest), disk).value
    /\ pc' = "jkm"
    /\ UNCHANGED <<BundleRest, fa_version, tmpdirs, zip_path, disk, modules,
                   global_dest, idx, dest, exit_code, oplog>>

\* the companion file the command is at, by position
Companion ==
    IF pc = "jkm" THEN [path |-> PathJoin(Val(global_dest), JkmFilename), what |-> "jkm"]
    ELSE [path |-> PathJoin(Val(global_dest), LauncherFilename), what |-> "exe"]

AfterCompanion == IF pc = "jkm" THEN "launcher" ELSE "modlist"

\* Factorio.jkm or launcher.exe is a file under default_dest: no download
BundleCompanionPresent ==
    /\ cmd = "bundle" /\ pc \in {"jkm", "launcher"}
    /\ IsFile(disk, Companion.path)
    /\ pc' = AfterCompanion
    /\ UNCHANGED <<BundleRest, bundling, disk, modules, global_dest, idx, dest,
                   exit_code, oplog>>

\* download_file_from_github_api or download_latest_release_asset wrote it
BundleDownload ==
    /\ cmd = "bundle" /\ pc \in {"jkm", "launcher"}
    /\ ~IsFile(disk, Companion.path)
    /\ Did("download", Companion.path, TRUE)
    /\ disk' = (Companion.path :> DataFile(Companion.what)) @@ disk
    /\ pc' = AfterCompanion
    /\ UNCHANGED <<BundleRest, bundling, modules, global_dest, idx, dest, exit_code>>

\* the download raised: sys.exit(1)
BundleDownloadFails ==
    /\ cmd = "bundle" /\ pc \in {"jkm", "launcher"}
    /\ ~IsFile(disk, Companion.path)
    /\ Did("download", Companion.path, FALSE)
    /\ Exit(1)
    /\ UNCHANGED <<BundleRest, bundling, disk, modules, global_dest, idx, dest>>

\* open(modlist_path, "w") raised: a message, and the command goes on
BundleModlistFails ==
    /\ cmd = "bundle" /\ pc = "modlist"
    /\ Did("write", PathJoin(Val(global_dest), ModlistFilename), FALSE)
    /\ pc' = "main"
    /\ UNCHANGED <<BundleRest, bundling, disk, modules, global_dest, idx, dest, exit_code>>

\* mod-list.json written
BundleModlist ==
    /\ cmd = "bundle" /\ pc = "modlist"
    /\ Did("write", PathJoin(Val(global_dest), ModlistFilename), TRUE)
    /\ disk' = (PathJoin(Val(global_dest), ModlistFilename) :> ModListFile(ModlistOf(modules)))
               @@ disk
    /\ pc' = "main"
    /\ UNCHANGED <<BundleRest, bundling, modules, global_dest, idx, dest, exit_code>>

\* no module is named FactorioAccess: sys.exit(1)
BundleNoMain ==
    /\ cmd = "bundle" /\ pc = "main"
    /\ MainMod(modules) = 0
    /\ Exit(1)
    /\ UNCHANGED <<BundleRest, bundling, disk, modules, global_dest, idx, dest, oplog>>

\* resolve_mod_dest(main_mod, default_dest), or None when it raises
MainModDest ==
    LET r == ResolveModDest(modules[MainMod(modules)], global_dest, cwd)
    IN  IF r.raised THEN None ELSE Some(r.value)

\* resolve_mod_dest or get_mod_version_or_raise raised: an uncaught exception
BundleVersionFails ==
    /\ cmd = "bundle" /\ pc = "main"
    /\ MainMod(modules) # 0
    /\ \/ MainModDest = None
       \/ MainModDest # None /\ GetModVersionAt(disk, Val(MainModDest)).raised
    /\ Exit(1)
    /\ UNCHANGED <<BundleRest, bundling, disk, modules, global_dest, idx, dest, oplog>>

BundleVersion ==
    /\ cmd = "bundle" /\ pc = "main"
    /\ MainMod(modules) # 0
    /\ MainModDest # None
    /\ ~GetModVersionAt(disk, Val(MainModDest)).raised
    /\ dest' = MainModDest
    /\ fa_version' = Some(GetModVersionAt(disk, Val(MainModDest)).value)
    /\ pc' = "mkdtemp"
    /\ UNCHANGED <<BundleRest, mod_assets, tmpdirs, zip_path, disk, modules,
                   global_dest, idx, exit_code, oplog>>

----------------------------------------------------------------------------
(* build_release_zip(modules, mod_assets, jkm_path, launcher_path,          *)
(* modlist_path, default_dest, bundle_name, fa_version)                     *)

\* the directory tempfile.TemporaryDirectory() makes
TmpDir == <<Sep, "tmp", Sep, "t">>

\* the arguments bundle_name and bundle_version
TheBundleName == BundleName(modules[MainMod(modules)])
TheBundleFolder == BundleFolder(TheBundleName, Val(fa_version))

\* content_dir and mods_dir, relative to tmpdir
ContentDir == TheBundleFolder \o <<Sep>> \o ContentFolder(TheBundleName)
ModsDir == ContentDir \o <<Sep>> \o ModsFolder

\* the tree under tmpdir: path relative to tmpdir -> what is there
Staged == tmpdirs[TmpDir]
Stage(path, node) == tmpdirs' = (TmpDir :> ((path :> node) @@ Staged))

\* shutil.copytree(..., ignore=shutil.ignore_patterns('.git')): the
\* directory without the .git that makes it a working copy
CopyTree(node) == ModDir(node.info)

\* a copytree that takes everything
CopyAsset_WithGit(d, name, modpath) ==
    IF IsDir(d, modpath)
    THEN [to |-> PathJoin(ModsDir, name), node |-> DiskAt(d, modpath)]
    ELSE [to |-> PathJoin(ModsDir, BaseName(modpath)), node |-> DiskAt(d, modpath)]

\* the body of the loop over the modules: where the asset goes, and as what
CopyAsset(d, name, modpath) ==
    IF IsDir(d, modpath)
    THEN [to |-> PathJoin(ModsDir, name), node |-> CopyTree(DiskAt(d, modpath))]
    ELSE [to |-> PathJoin(ModsDir, BaseName(modpath)), node |-> DiskAt(d, modpath)]

\* the zip make_archive writes: one top-level folder, base_dir, and under it
\* the tree staged under that folder
BundleArchive(base_dir, tree) ==
    [kind |-> "zip", remotes |-> NoKeys, head |-> None,
     info |-> [tag |-> "zip", fields |-> (base_dir :> NoInfo)],
     tree |-> [q \in {r \in DOMAIN tree : StartsWith(r, base_dir)} |-> tree[q]]]

BuildSteps == {"copy mods", "copy modlist", "copy jkm", "copy launcher", "archive"}

\* with tempfile.TemporaryDirectory() as tmpdir: os.makedirs(mods_dir)
BuildStart ==
    /\ cmd = "bundle" /\ pc = "mkdtemp"
    /\ tmpdirs' = (TmpDir :> (ModsDir :> PlainDir))
    /\ idx' = 1
    /\ pc' = "copy mods"
    /\ UNCHANGED <<BundleRest, mod_assets, fa_version, zip_path, disk, modules,
                   global_dest, dest, exit_code, oplog>>

BuildCopyMod ==
    /\ cmd = "bundle" /\ pc = "copy mods"
    /\ LET name == Val(modules[idx]["name"])
           copy == CopyAsset(disk, name, mod_assets[name])
       IN  /\ Stage(copy.to, copy.node)
           /\ Did("copy", mod_assets[name], TRUE)
    /\ idx' = idx + 1
    /\ pc' = IF idx = Len(modules) THEN "copy modlist" ELSE "copy mods"
    /\ UNCHANGED <<BundleRest, mod_assets, fa_version, zip_path, disk, modules,
                   global_dest, dest, exit_code>>

\* shutil.copy2(src, dst_dir) of the file the step is about
BuildCopyFile(src, dst_dir, next) ==
    /\ IsFile(disk, src)
    /\ Stage(PathJoin(dst_dir, BaseName(src)), DiskAt(disk, src))
    /\ Did("copy", src, TRUE)
    /\ pc' = next
    /\ UNCHANGED <<BundleRest, mod_assets, fa_version, zip_path, disk, modules,
                   global_dest, idx, dest, exit_code>>

BuildCopyModlist ==
    /\ cmd = "bundle" /\ pc = "copy modlist"
    /\ BuildCopyFile(PathJoin(Val(global_dest), ModlistFilename), ModsDir, "copy jkm")

BuildCopyJkm ==
    /\ cmd = "bundle" /\ pc = "copy jkm"
    /\ BuildCopyFile(PathJoin(Val(global_dest), JkmFilename), ContentDir, "copy launcher")

BuildCopyLauncher ==
    /\ cmd = "bundle" /\ pc = "copy launcher"
    /\ BuildCopyFile(PathJoin(Val(global_dest), LauncherFilename), ContentDir, "archive")

\* the path make_archive returns: base_name with .zip
ArchivePath == PathJoin(Val(global_dest), TheBundleFolder) \o ZipExt

\* shutil.make_archive, return archive_path: the with statement removes tmpdir
BuildArchive ==
    /\ cmd = "bundle" /\ pc = "archive"
    /\ disk' = (ArchivePath :> BundleArchive(TheBundleFolder, Staged)) @@ disk
    /\ Did("archive", ArchivePath, TRUE)
    /\ zip_path' = Some(ArchivePath)
    /\ tmpdirs' = NoKeys
    /\ pc' = "built"
    /\ UNCHANGED <<BundleRest, mod_assets, fa_version, modules, global_dest, idx,
                   dest, exit_code>>

\* a staging directory made with mkdtemp: nothing removes it on an exception
BuildFails_Leak ==
    /\ cmd = "bundle" /\ pc \in BuildSteps
    /\ Did(pc, TmpDir, FALSE)
    /\ Exit(1)
    /\ UNCHANGED <<BundleRest, bundling, disk, modules, global_dest, idx, dest>>

\* a copy or make_archive raised (the source is not there, an I/O error):
\* the with statement removes tmpdir, the exception ends the process
BuildFails ==
    /\ cmd = "bundle" /\ pc \in BuildSteps
    /\ Did(pc, TmpDir, FALSE)
    /\ tmpdirs' = NoKeys
    /\ Exit(1)
    /\ UNCHANGED <<BundleRest, mod_assets, fa_version, zip_path, disk, modules,
                   global_dest, idx, dest>>

\* cmd_bundle returns and main with it
BundleReturn ==
    /\ cmd = "bundle" /\ pc = "built"
    /\ Exit(0)
    /\ UNCHANGED <<BundleRest, bundling, disk, modules, global_dest, idx, dest, oplog>>

NextBundle ==
    \/ BundleStartExit \/ BundleStart
    \/ BundleDiscoverFails \/ BundleDiscover
    \/ BundleCompanionPresent \/ BundleDownload \/ BundleDownloadFails
    \/ BundleModlistFails \/ BundleModlist
    \/ BundleNoMain \/ BundleVersionFails \/ BundleVersion
    \/ BuildStart \/ BuildCopyMod \/ BuildCopyModlist \/ BuildCopyJkm
    \/ BuildCopyLauncher \/ BuildArchive \/ BuildFails
    \/ BundleReturn

SpecBundle == InitBundle /\ [][NextBundle]_vars

----------------------------------------------------------------------------
(* The claims about bundle *)

\* the search root of the run, None when neither --source nor default_dest
\* gives one
BundleRoot ==
    IF config = None THEN None
    ELSE IF arg_dest # None THEN arg_dest ELSE Val(config).default_dest

Configured == Val(config).modules

\* a manifest that is an object with name and version, named name
NamedManifest(m, name) ==
    m.tag = "object" /\ {"name", "version"} \subseteq DOMAIN m.fields /\ m.fields["name"] = name

\* the zips of module b under the search root when the command started, and
\* the valid ones among them
ZipsAtStart == {p \in {Zip120Path, Zip2Path} : Exists(disk0, p)}
ValidAtStart == {p \in ZipsAtStart : NamedManifest(ManifestIn(disk0, p), <<"b">>)}

\* the same for the zips of the main module
ValidMainAtStart ==
    {p \in {FaZipPath} :
        Exists(disk0, p) /\ NamedManifest(ManifestIn(disk0, p), MainModName)}

\* the valid zips of a module by its name
ValidZipsAtStart(name) == IF name = MainModName THEN ValidMainAtStart ELSE ValidAtStart

\* module i of the configuration has no asset: its directory is missing or
\* has no valid manifest named as the module (directory mode), or the valid
\* zips are none or several (archive mode)
NoAsset(i) ==
    LET mod == Configured[i]
        name == Val(mod["name"])
        at == DiskAt(disk0, SearchRoot \o <<Sep>> \o name)
    IN  IF Get(mod, "bundle_zip") = Some(FALSE)
        THEN ~(at.kind \in {"dir", "git"} /\ NamedManifest(at.info, name))
        ELSE Cardinality(ValidZipsAtStart(name)) # 1

DiscoveryFails ==
    /\ BundleRoot # None
    /\ \E i \in 1..Len(Configured) : NoAsset(i)

\* C15: when asset discovery fails for a configured module, bundle gets no
\* further than the discovery and ends with exit status 1; nothing is
\* downloaded, mod-list.json is not written, no archive is made: the disk is
\* as the command found it.
C15_FailedDiscoveryStopsBundle ==
    (cmd = "bundle" /\ DiscoveryFails) =>
        /\ pc \in {"start", "discover", "exited"}
        /\ pc = "exited" => exit_code = Some(1)
        /\ disk = disk0
        /\ oplog = << >>
        /\ zip_path = None /\ tmpdirs = NoKeys

\* two valid zips for module b, nothing else missing but the companion
\* files and mod-list.json: the command has ended
C15_Witness ==
    /\ cmd = "bundle" /\ pc = "exited"
    /\ Cardinality(ValidAtStart) = 2
    /\ \A i \in 1..Len(Configured) : Get(Configured[i], "bundle_zip") = Some(FALSE) => ~NoAsset(i)
    /\ ~Exists(disk0, JkmPath) /\ ~Exists(disk0, LauncherPath) /\ ~Exists(disk0, ModlistPath)
    /\ exit_code = Some(1)

\* no download, write, copy or archiving step of the run failed
NothingFailed == \A k \in 1..Len(oplog) : oplog[k].ok

\* the archive the run produced, when it produced one
Produced == DiskAt(disk, Val(zip_path))

\* the one folder at the top of an archive and its content folder, by what
\* is found in the archive: <top>/<content>/mods is a directory of it
ModsOf(archive) ==
    {q \in DOMAIN archive.tree :
        /\ archive.tree[q].kind = "dir"
        /\ Len(Names(q)) = 3
        /\ Names(q)[3] = ModsFolder}

\* the entry of that name in the mods folder of the archive, Absent if none
InMods(archive, name) ==
    LET at == {q \o <<Sep>> \o name : q \in ModsOf(archive)} \cap DOMAIN archive.tree
    IN  IF at = {} THEN Absent ELSE archive.tree[CHOOSE q \in at : TRUE]

Entry(name) == [name |-> name, enabled |-> TRUE]

\* the scenario as stated: modules a (directory) and b (zip); a's directory
\* and b_1.2.0.zip, holding b/info.json with name b and version 1.2.0
StatedScenario ==
    /\ cmd = "bundle" /\ BundleRoot # None
    /\ Configured = <<DirMod, ArchiveMod>>
    /\ disk0[DirModPath] = ModDir(Info(<<"a">>, V1))
    /\ disk0[Zip120Path] = ZipOf(<<"b">>, Info(<<"b">>, V120))
    /\ disk0[Zip2Path] = Absent

\* C16 as stated: in that scenario bundle succeeds, and mods/ of the archive
\* holds directory a, file b_1.2.0.zip and a mod-list.json listing base, a, b.
C16_EndToEndAsStated ==
    (StatedScenario /\ NothingFailed /\ pc = "exited") =>
        /\ exit_code = Some(0)
        /\ zip_path # None
        /\ InMods(Produced, <<"a">>) = ModDir(Info(<<"a">>, V1))
        /\ InMods(Produced, BaseName(Zip120Path)) = disk0[Zip120Path]
        /\ InMods(Produced, ModlistFilename)
             = ModListFile(<<Entry(<<"base">>), Entry(<<"a">>), Entry(<<"b">>)>>)

\* the scenario that works: the directory module is the main module,
\* FactorioAccess, its directory holds a manifest of that name, and the
\* manifest of b_1.2.0.zip is at b_1.2.0/info.json
WorkingScenario ==
    /\ cmd = "bundle" /\ BundleRoot # None
    /\ Configured = <<MainDirMod, ArchiveMod>>
    /\ disk0[MainModPath].kind \in {"dir", "git"}
    /\ disk0[MainModPath].info = Info(MainModName, V120)
    /\ disk0[Zip120Path] = ZipOf(<<"b", "_", "1", ".", "2", ".", "0">>, Info(<<"b">>, V120))
    /\ disk0[Zip2Path] = Absent

\* C16, amended: in the working scenario, when no download, write or copy
\* fails, bundle ends with exit status 0 and has produced an archive whose
\* mods/ holds the directory FactorioAccess, the file b_1.2.0.zip and a
\* mod-list.json listing base, FactorioAccess and b, all enabled.
C16_EndToEnd ==
    (WorkingScenario /\ NothingFailed) =>
        /\ pc = "exited" =>
            /\ exit_code = Some(0)
            /\ zip_path # None
            /\ Produced.kind = "zip"
            /\ InMods(Produced, MainModName) = ModDir(Info(MainModName, V120))
            /\ InMods(Produced, BaseName(Zip120Path)) = disk0[Zip120Path]
            /\ InMods(Produced, ModlistFilename)
                 = ModListFile(<<Entry(<<"base">>), Entry(MainModName), Entry(<<"b">>)>>)
        /\ exit_code # Some(1)

\* the working scenario run to its end, both companion files downloaded
C16_Witness ==
    /\ WorkingScenario /\ NothingFailed
    /\ pc = "exited" /\ exit_code = Some(0)
    /\ ~Exists(disk0, JkmPath) /\ ~Exists(disk0, LauncherPath)
    /\ disk0[MainModPath].kind = "git"

\* the version in the manifest of the main module's directory at the start
ManifestVersion == disk0[MainModPath].info.fields["version"]

\* the bundle name: the name of the main module, an underscore, and beta for
\* a beta
StatedBundleName ==
    IF \E i \in 1..Len(Configured) : Configured[i] = BetaDirMod
    THEN <<"FactorioAccess", "_", "beta">> ELSE <<"FactorioAccess", "_">>

\* C17: the archive bundle writes is <bundle_name>_<version>.zip in the
\* output directory, the version as the main module's manifest has it.
C17_ArchiveNamedByVersion ==
    (cmd = "bundle" /\ zip_path # None) =>
        /\ Val(zip_path)
             = Val(BundleRoot) \o <<Sep>> \o StatedBundleName \o <<"_">> \o ManifestVersion \o ZipExt
        /\ Exists(disk, Val(zip_path))

\* version 1.2.0: the archive's name ends in _1_2_0.zip
C17_Witness ==
    /\ cmd = "bundle" /\ zip_path # None
    /\ ManifestVersion = V120
    /\ EndsWith(Val(zip_path), <<"_", "1", "_", "2", "_", "0", ".", "z", "i", "p">>)
    /\ Exists(disk, Val(zip_path))

\* every mod-list.json in an archive, wherever it is
ModlistsIn(archive) ==
    {archive.tree[q] : q \in {r \in DOMAIN archive.tree : BaseName(r) = ModlistFilename}}

\* C18: the mod-list.json in the archive of a run is the one generated in
\* that run: base, then the configured modules in their order, all enabled.
C18_ModlistOfThisRun ==
    (cmd = "bundle" /\ zip_path # None) =>
        ModlistsIn(Produced)
          = {ModListFile(<<Entry(<<"base">>)>>
                         \o [i \in 1..Len(Configured) |-> Entry(Val(Configured[i]["name"]))])}

\* the write of mod-list.json failed and the archive holds the one an
\* earlier run left
C18_Witness ==
    /\ cmd = "bundle" /\ zip_path # None
    /\ \E k \in 1..Len(oplog) : oplog[k].op = "write" /\ ~oplog[k].ok
    /\ ModlistsIn(Produced) = {StaleModlist}

\* the names of the entries of a staged tree that are directly in its
\* content folder <top>/<content>, and of those in <top>/<content>/mods
InContent(tree) == {Names(q)[3] : q \in {r \in DOMAIN tree : Len(Names(r)) = 3}}
InModsFolder(tree) ==
    {Names(q)[4] : q \in {r \in DOMAIN tree : Len(Names(r)) = 4 /\ Names(r)[3] = ModsFolder}}

\* the tree has one top folder with one content folder, and nothing deeper
\* than the entries of mods
OneContentFolder(tree) ==
    /\ \A q \in DOMAIN tree : Len(Names(q)) \in {3, 4}
    /\ \A q, r \in DOMAIN tree : Names(q)[1] = Names(r)[1] /\ Names(q)[2] = Names(r)[2]
    /\ \A q \in DOMAIN tree : Len(Names(q)) = 4 => Names(q)[3] = ModsFolder

Staging == cmd = "bundle" /\ pc = "archive"

\* C19 as stated: mod-list.json and the two companion files are all three
\* directly in the content folder of the staged tree.
C19_ThreeFilesInContentFolder ==
    Staging =>
        {ModlistFilename, JkmFilename, LauncherFilename} \subseteq InContent(Staged)

\* the one valid zip of module b at the start
TheZip == CHOOSE p \in ValidAtStart : TRUE

\* what the staged tree is to hold for module i under mods/: name and node
StagedAsset(i) ==
    LET name == Val(Configured[i]["name"])
    IN  IF Get(Configured[i], "bundle_zip") = Some(FALSE)
        THEN [name |-> name,
              node |-> ModDir(disk0[SearchRoot \o <<Sep>> \o name].info)]
        ELSE IF name = MainModName
        THEN [name |-> BaseName(FaZipPath), node |-> disk0[FaZipPath]]
        ELSE [name |-> BaseName(TheZip), node |-> disk0[TheZip]]

\* C19, amended: in the staged tree every module asset is under mods/, a
\* directory as mods/<name> without .git, a zip as a single file; the
\* generated mod-list.json is in mods/ too; only Factorio.jkm and
\* launcher.exe are directly in the content folder.
C19_StagedLayout ==
    Staging =>
        /\ OneContentFolder(Staged)
        /\ InContent(Staged) = {ModsFolder, JkmFilename, LauncherFilename}
        /\ InModsFolder(Staged)
             = {StagedAsset(i).name : i \in 1..Len(Configured)} \cup {ModlistFilename}
        /\ \A i \in 1..Len(Configured) :
              \E q \in DOMAIN Staged :
                  /\ Len(Names(q)) = 4
                  /\ Names(q)[4] = StagedAsset(i).name
                  /\ Staged[q] = StagedAsset(i).node

\* a staged tree whose directory asset came from a working copy
C19_Witness ==
    /\ Staging
    /\ disk0[MainModPath].kind = "git"
    /\ ModlistFilename \in InModsFolder(Staged)

\* C20: the staging directory exists only while build_release_zip is at one
\* of its steps: it is gone once the function has returned the archive path
\* and once a copy or the archiving has raised.
C20_StagingRemoved ==
    cmd = "bundle" =>
        /\ tmpdirs # NoKeys => pc \in BuildSteps
        /\ pc \in {"built", "exited"} => tmpdirs = NoKeys

\* make_archive raised after everything was staged
C20_Witness ==
    /\ cmd = "bundle" /\ pc = "exited" /\ exit_code = Some(1)
    /\ oplog # << >>
    /\ oplog[Len(oplog)].op = "archive" /\ ~oplog[Len(oplog)].ok
    /\ tmpdirs = NoKeys

----------------------------------------------------------------------------
(* cmd_install: the detection of the game, of its data directory, of Steam *)

\* how many times the user may be asked in one run
MaxInputs == 5

\* os.path.dirname
DirName(p) ==
    LET head == SubSeq(p, 1, RFind(p, Sep))
    IN  IF head # << >> /\ \E i \in 1..Len(head) : head[i] # Sep
        THEN RStripSep(head) ELSE head

\* the places of this machine, a Linux one with the home directory /h
HomeDir == <<Sep, "h">>
SteamBase == HomeDir \o <<Sep, ".steam", Sep, "steam">>
RelExe == <<"bin", Sep, "x64", Sep, "factorio">>
InstallerPaths ==
    <<<<Sep, "opt", Sep, "factorio">> \o <<Sep>> \o RelExe,
      HomeDir \o <<Sep, "factorio", Sep>> \o RelExe>>
SteamFactorioExe == SteamBase \o <<Sep, "SteamApps", Sep, "common", Sep, "Factorio", Sep>> \o RelExe
PlatformRoot == HomeDir \o <<Sep, ".factorio">>
LocalConfig ==
    SteamBase \o <<Sep, "userdata", Sep, "1", Sep, "config", Sep, "localconfig.vdf">>

\* is_valid_steam_install(path)
IsValidSteamInstall(d, path) ==
    /\ IsDir(d, path)
    /\ IsFile(d, PathJoin(path, <<"steam">>))
    /\ IsFile(d, PathJoin(path, <<"config", Sep, "config.vdf">>))

\* find_steam_base(): the first of the candidates that is a Steam install
FindSteamBase(d) == IF IsValidSteamInstall(d, SteamBase) THEN Some(SteamBase) ELSE None

\* find_factorio_steam_path(); the library that lists the game is the Steam
\* install itself
FindFactorioSteamPath(d) ==
    IF FindSteamBase(d) = None THEN None
    ELSE IF IsFile(d, SteamFactorioExe) THEN Some(SteamFactorioExe)
    ELSE None

\* find_factorio_installer_path(): the first of the possible paths that is a file
FindFactorioInstallerPath(d) ==
    LET there == {i \in DOMAIN InstallerPaths : IsFile(d, InstallerPaths[i])}
    IN  IF there = {} THEN None
        ELSE Some(InstallerPaths[CHOOSE i \in there : \A j \in there : i <= j])

\* prompt_for_custom_factorio_path() once the user typed base
PromptForCustomFactorioPath(d, base) ==
    IF ~IsDir(d, base) THEN None
    ELSE IF IsFile(d, PathJoin(base, RelExe)) THEN Some(PathJoin(base, RelExe))
    ELSE None

\* the three folders of a data directory
DataSubdirs == {<<"config">>, <<"mods">>, <<"saves">>}

\* find_factorio_datadir(exe_path); a folder name is one element of the
\* model's paths, so the last "/bin" is the last separator followed by bin
FindFactorioDatadir(d, exe_path) ==
    LET exe_dir == DirName(exe_path)
        at == {i \in 1..(Len(exe_dir) - 1) : exe_dir[i] = Sep /\ exe_dir[i + 1] = "bin"}
        idx_bin == IF at = {} THEN -1 ELSE (CHOOSE i \in at : \A j \in at : j <= i) - 1
        portable_factorio_root ==
            IF idx_bin # -1
            THEN IF SubSeq(exe_dir, 1, idx_bin) = << >> THEN <<Sep>>
                 ELSE SubSeq(exe_dir, 1, idx_bin)
            ELSE DirName(DirName(exe_dir))
        complete(factorio_root) ==
            \A subdir \in DataSubdirs : IsDir(d, PathJoin(factorio_root, subdir))
    IN  IF complete(portable_factorio_root) THEN Some(portable_factorio_root)
        ELSE IF complete(PlatformRoot) THEN Some(PlatformRoot)
        ELSE None

\* the menu of choose_factorio_executable: the detected executables, and no
\* path for the custom one
MenuOptions(d) ==
    (IF FindFactorioSteamPath(d) # None THEN <<FindFactorioSteamPath(d)>> ELSE << >>)
    \o (IF FindFactorioInstallerPath(d) # None
        THEN <<FindFactorioInstallerPath(d)>> ELSE << >>)
    \o <<None>>

\* str.isdigit and int of what the user may type; eof is the end of the input
Typed == {"eof", "x", "0", "1", "2", "3"}
IsDigit(choice) == choice \in {"0", "1", "2", "3"}
IntOf(choice) == CASE choice = "0" -> 0 [] choice = "1" -> 1
                   [] choice = "2" -> 2 [] choice = "3" -> 3

\* the folders the user may name as the game's
CustomBase == <<Sep, "c">>
CustomBases == {CustomBase, <<Sep, "n">>}

\* a folder with the three folders of a data directory, or with two of them
DataDirAt(root, subdirs) ==
    [p \in {PathJoin(root, sub) : sub \in subdirs} |-> PlainDir]

\* a localconfig.vdf with the game's entry and its launch options
VdfFile(options) ==
    [kind |-> "file", remotes |-> NoKeys, head |-> None,
     info |-> [tag |-> "vdf", fields |-> ("LaunchOptions" :> options)]]

\* what of the game may be on this machine
SteamFiles ==
    {NoKeys,
     (SteamBase :> PlainDir) @@ (PathJoin(SteamBase, <<"steam">>) :> PlainFile)
     @@ (PathJoin(SteamBase, <<"config", Sep, "config.vdf">>) :> PlainFile)
     @@ (SteamFactorioExe :> PlainFile) @@ (LocalConfig :> VdfFile(None)),
     (SteamBase :> PlainDir) @@ (PathJoin(SteamBase, <<"steam">>) :> PlainFile)
     @@ (PathJoin(SteamBase, <<"config", Sep, "config.vdf">>) :> PlainFile)
     @@ (SteamFactorioExe :> PlainFile)}
InstallerFiles ==
    {NoKeys, (InstallerPaths[1] :> PlainFile),
     (InstallerPaths[1] :> PlainFile) @@ DataDirAt(DirName(DirName(DirName(InstallerPaths[1]))), DataSubdirs)}
CustomFiles ==
    {(CustomBase :> PlainDir), (CustomBase :> PlainDir) @@ (PathJoin(CustomBase, RelExe) :> PlainFile)}
PlatformFiles ==
    {NoKeys, DataDirAt(PlatformRoot, DataSubdirs),
     DataDirAt(PlatformRoot, {<<"config">>, <<"saves">>})}

\* what is under the default dest: the assets of the modules a and b, the
\* launcher and the mod-list.json
InstallModules == <<DirMod, ArchiveMod>>
InstallAssets ==
    {(SearchRoot :> PlainDir) @@ (DirModPath :> a) @@ (Zip120Path :> b)
     @@ (LauncherPath :> l) @@ (ModlistPath :> o) :
        a \in {Absent, WorkingCopy([origin |-> {RemoteUrl(1)}], None, Info(<<"a">>, V1))},
        b \in {ZipOf(<<"b", "_", "1", ".", "2", ".", "0">>, Info(<<"b">>, V120))},
        l \in {Absent, DataFile("exe")},
        o \in {Absent, StaleModlist}}

InstallDisks ==
    {a @@ s @@ i @@ c @@ p :
        a \in InstallAssets, s \in SteamFiles, i \in InstallerFiles,
        c \in CustomFiles, p \in PlatformFiles}

InitInstall ==
    /\ cmd = "install"
    /\ \/ /\ config = Some([modules |-> InstallModules, default_dest |-> Some(SearchRoot),
                            update |-> None])
          /\ disk \in InstallDisks
       \/ config = None /\ disk = NoKeys
    /\ disk0 = disk
    /\ arg_dest = None /\ arg_modname = None /\ arg_outdir = None
    /\ cwd = Cwd
    /\ made = {} /\ packaged = {}
    /\ modules = << >> /\ todo = << >>
    /\ global_dest = None /\ global_update = None /\ outdir = None
    /\ idx = 0 /\ dest = None /\ pc = "start" /\ exit_code = None
    /\ report = << >> /\ oplog = << >> /\ run = 1 /\ prev_report = << >>
    /\ result = None
    /\ NoBundling
    /\ steam_running \in BOOLEAN
    /\ factorio_path = None /\ is_steam = FALSE /\ data_dir = None /\ asked = 0

----------------------------------------------------------------------------
(* cmd_install: the steps *)

\* what no step of install changes
InstallRest ==
    <<env, fa_version, tmpdirs, zip_path, disk0, made, packaged, todo, global_update,
      outdir, report, run, prev_report, idx, dest>>

\* input(): one more question to the user
Ask == asked < MaxInputs /\ asked' = asked + 1

\* an exception that nothing catches: the traceback, exit status 1
Dies(e) == Exit(1) /\ result' = Some(Raise(e))

\* something the run did or saw, in order
Noted(op, path, ok) ==
    oplog' = Append(oplog, [op |-> op, mod |-> 0, path |-> path,
                            urls |-> {}, ref |-> None, ok |-> ok])

\* load_config_or_exit: there is no configuration file
InstallStartExit ==
    /\ cmd = "install" /\ pc = "start"
    /\ config = None
    /\ Exit(1)
    /\ UNCHANGED <<InstallRest, installing, mod_assets, disk, modules, global_dest,
                   oplog, result>>

InstallStart ==
    /\ cmd = "install" /\ pc = "start"
    /\ config # None
    /\ modules' = Val(config).modules
    /\ global_dest' = Val(config).default_dest
    /\ pc' = "choose"
    /\ UNCHANGED <<InstallRest, installing, mod_assets, disk, exit_code, oplog, result>>

\* choose_factorio_executable: choice 0, or the end of the input
ChooseCancel ==
    /\ cmd = "install" /\ pc = "choose"
    /\ \E choice \in {"eof", "0"} :
          /\ Ask
          /\ factorio_path' = None /\ is_steam' = FALSE
          /\ Noted("cancel", None, TRUE)
    /\ pc' = "datadir"
    /\ UNCHANGED <<InstallRest, steam_running, data_dir, mod_assets, disk, modules,
                   global_dest, exit_code, result>>

\* something that is no number of the menu: the menu again
ChooseInvalid ==
    /\ cmd = "install" /\ pc = "choose"
    /\ \E choice \in Typed \ {"eof"} :
          /\ ~IsDigit(choice) \/ (IsDigit(choice) /\ IntOf(choice) > Len(MenuOptions(disk)))
          /\ Ask
    /\ UNCHANGED <<InstallRest, steam_running, factorio_path, is_steam, data_dir,
                   mod_assets, disk, modules, global_dest, pc, exit_code, oplog, result>>

\* one of the detected executables
ChooseDetected ==
    /\ cmd = "install" /\ pc = "choose"
    /\ \E choice \in Typed :
          /\ IsDigit(choice)
          /\ IntOf(choice) \in 1..Len(MenuOptions(disk))
          /\ LET selected == MenuOptions(disk)[IntOf(choice)]
             IN  /\ selected # None
                 /\ factorio_path' = selected
                 /\ is_steam' = (selected = FindFactorioSteamPath(disk))
          /\ Ask
    /\ pc' = "datadir"
    /\ UNCHANGED <<InstallRest, steam_running, data_dir, mod_assets, disk, modules,
                   global_dest, exit_code, oplog, result>>

\* the custom path: on to the question for the folder
ChooseCustom ==
    /\ cmd = "install" /\ pc = "choose"
    /\ \E choice \in Typed :
          /\ IsDigit(choice)
          /\ IntOf(choice) \in 1..Len(MenuOptions(disk))
          /\ MenuOptions(disk)[IntOf(choice)] = None
          /\ Ask
    /\ pc' = "custom"
    /\ UNCHANGED <<InstallRest, steam_running, factorio_path, is_steam, data_dir,
                   mod_assets, disk, modules, global_dest, exit_code, oplog, result>>

\* prompt_for_custom_factorio_path: the folder the user names has the
\* executable, or the menu comes again
CustomPath ==
    /\ cmd = "install" /\ pc = "custom"
    /\ \E base \in CustomBases :
          LET custom == PromptForCustomFactorioPath(disk, base)
          IN  /\ Ask
              /\ IF custom # None
                 THEN factorio_path' = custom /\ pc' = "datadir"
                 ELSE factorio_path' = factorio_path /\ pc' = "choose"
    /\ UNCHANGED <<InstallRest, steam_running, is_steam, data_dir, mod_assets, disk,
                   modules, global_dest, exit_code, oplog, result>>

\* the end of the input at the question for the folder: EOFError
CustomEof ==
    /\ cmd = "install" /\ pc = "custom"
    /\ Ask
    /\ Dies("EOFError")
    /\ UNCHANGED <<InstallRest, steam_running, factorio_path, is_steam, data_dir,
                   mod_assets, disk, modules, global_dest, oplog>>

\* find_factorio_datadir(None): os.path.dirname(None) raises TypeError
FindDatadirDies ==
    /\ cmd = "install" /\ pc = "datadir"
    /\ factorio_path = None
    /\ Dies("TypeError")
    /\ UNCHANGED <<InstallRest, installing, mod_assets, disk, modules, global_dest, oplog>>

FindDatadir ==
    /\ cmd = "install" /\ pc = "datadir"
    /\ factorio_path # None
    /\ data_dir' = FindFactorioDatadir(disk, Val(factorio_path))
    /\ pc' = "discover"
    /\ UNCHANGED <<InstallRest, steam_running, factorio_path, is_steam, asked,
                   mod_assets, disk, modules, global_dest, exit_code, oplog, result>>

\* find_mod_assets_or_sources raises and nothing catches it
InstallDiscoverFails ==
    /\ cmd = "install" /\ pc = "discover"
    /\ FindModAssetsOrSources(modules, Val(global_dest), disk).raised
    /\ Dies(FindModAssetsOrSources(modules, Val(global_dest), disk).value)
    /\ UNCHANGED <<InstallRest, installing, mod_assets, disk, modules, global_dest, oplog>>

InstallDiscover ==
    /\ cmd = "install" /\ pc = "discover"
    /\ ~FindModAssetsOrSources(modules, Val(global_dest), disk).raised
    /\ mod_assets' = FindModAssetsOrSources(modules, Val(global_dest), disk).value
    /\ pc' = "install mods"
    /\ UNCHANGED <<InstallRest, installing, disk, modules, global_dest, exit_code,
                   oplog, result>>

\* install_mod_assets_to_datadir(assets, None): os.path.join(None, "mods")
\* raises TypeError
InstallModsDies ==
    /\ cmd = "install" /\ pc = "install mods"
    /\ data_dir = None
    /\ Dies("TypeError")
    /\ UNCHANGED <<InstallRest, installing, mod_assets, disk, modules, global_dest, oplog>>

\* where install_mod_assets_to_datadir puts the asset of a module, and as what
InstalledAsset(d, mods_dir, name, asset_path) ==
    IF IsDir(d, asset_path)
    THEN [to |-> PathJoin(mods_dir, name), node |-> CopyTree(DiskAt(d, asset_path))]
    ELSE [to |-> PathJoin(mods_dir, BaseName(asset_path)), node |-> DiskAt(d, asset_path)]

\* install_mod_assets_to_datadir: the mods folder is made and every asset
\* copied into it, in the place of what was there under its name
InstallMods ==
    /\ cmd = "install" /\ pc = "install mods"
    /\ data_dir # None
    /\ LET mods_dir == PathJoin(Val(data_dir), ModsFolder)
           names == [i \in 1..Len(modules) |-> Val(modules[i]["name"])]
           copy(i) == InstalledAsset(disk, mods_dir, names[i], mod_assets[names[i]])
       IN  /\ disk' = [p \in {copy(i).to : i \in 1..Len(modules)} |->
                          copy(CHOOSE i \in 1..Len(modules) : copy(i).to = p).node]
                      @@ (mods_dir :> PlainDir) @@ disk
           /\ oplog' = oplog \o [i \in 1..Len(modules) |->
                          [op |-> "copy", mod |-> i, path |-> Some(mod_assets[names[i]]),
                           urls |-> {}, ref |-> None, ok |-> TRUE]]
    /\ pc' = "install support"
    /\ UNCHANGED <<InstallRest, installing, mod_assets, modules, global_dest,
                   exit_code, result>>

\* install_assets_to_data_dir: mod-list.json into the mods folder, then
\* launcher.exe into the data directory; the first copy that fails ends it
\* with a message
InstallSupport ==
    /\ cmd = "install" /\ pc = "install support"
    /\ LET mods_dir == PathJoin(Val(data_dir), ModsFolder)
           modlist_path == PathJoin(Val(global_dest), ModlistFilename)
           launcher_path == PathJoin(Val(global_dest), LauncherFilename)
           modlist == IF IsFile(disk, modlist_path)
                      THEN (PathJoin(mods_dir, ModlistFilename) :> DiskAt(disk, modlist_path))
                      ELSE NoKeys
           launcher == IF IsFile(disk, modlist_path) /\ IsFile(disk, launcher_path)
                       THEN (PathJoin(Val(data_dir), LauncherFilename)
                                :> DiskAt(disk, launcher_path))
                       ELSE NoKeys
       IN  /\ disk' = modlist @@ launcher @@ disk
           /\ Noted("copy support", Some(Val(data_dir)),
                    IsFile(disk, modlist_path) /\ IsFile(disk, launcher_path))
    /\ pc' = "steam"
    /\ UNCHANGED <<InstallRest, installing, mod_assets, modules, global_dest,
                   exit_code, result>>

\* the chosen executable is not the Steam one
NotSteam ==
    /\ cmd = "install" /\ pc = "steam"
    /\ ~is_steam
    /\ pc' = "jaws"
    /\ UNCHANGED <<InstallRest, installing, mod_assets, disk, modules, global_dest,
                   exit_code, oplog, result>>

----------------------------------------------------------------------------
(* modify_factorio_steam_launch_options and what it calls *)

\* is_steam_running(), noted with what it saw
SeesSteam == Noted("is_steam_running", None, steam_running)

\* prompt_modify_steam_options: 1 is yes, 2 is no, the question again for
\* anything else
PromptModify ==
    /\ cmd = "install" /\ pc = "steam"
    /\ is_steam
    /\ \E choice \in {"1", "2", "x"} :
          /\ Ask
          /\ CASE choice = "1" -> Noted("modify", None, TRUE) /\ pc' = "steam check"
               [] choice = "2" -> Noted("skip", None, TRUE) /\ pc' = "jaws"
               [] OTHER -> oplog' = oplog /\ pc' = pc
    /\ UNCHANGED <<InstallRest, steam_running, factorio_path, is_steam, data_dir,
                   mod_assets, disk, modules, global_dest, exit_code, result>>

\* the end of the input at one of the two menus of the Steam step: EOFError
SteamMenuEof ==
    /\ cmd = "install" /\ pc \in {"steam", "steam menu"}
    /\ is_steam
    /\ Ask
    /\ Dies("EOFError")
    /\ UNCHANGED <<InstallRest, steam_running, factorio_path, is_steam, data_dir,
                   mod_assets, disk, modules, global_dest, oplog>>

\* prompt_steam_exit_text_menu, the top of its loop: on when Steam is not
\* running, the menu when it is
SteamCheck ==
    /\ cmd = "install" /\ pc = "steam check"
    /\ SeesSteam
    /\ pc' = IF steam_running THEN "steam menu" ELSE "set options"
    /\ UNCHANGED <<InstallRest, installing, mod_assets, disk, modules, global_dest,
                   exit_code, result>>

\* choice 1: Steam is looked for again
SteamRetry ==
    /\ cmd = "install" /\ pc = "steam menu"
    /\ Ask
    /\ SeesSteam
    /\ pc' = IF steam_running THEN "steam check" ELSE "set options"
    /\ UNCHANGED <<InstallRest, steam_running, factorio_path, is_steam, data_dir,
                   mod_assets, disk, modules, global_dest, exit_code, result>>

\* a force quit that is taken to have worked whatever it returned
SteamForceQuit_Trusted ==
    /\ cmd = "install" /\ pc = "steam menu"
    /\ Ask
    /\ \/ /\ steam_running' = FALSE
          /\ Noted("is_steam_running", None, FALSE)
       \/ /\ steam_running
          /\ steam_running' = steam_running
          /\ Noted("force quit failed", None, FALSE)
    /\ pc' = "set options"
    /\ UNCHANGED <<InstallRest, factorio_path, is_steam, data_dir, mod_assets, disk,
                   modules, global_dest, exit_code, result>>

\* choice 2, force_quit_steam: no process, or the process is ended and seen
\* to be gone, and the flow goes on; or the process could not be ended, and
\* the loop starts again
SteamForceQuit ==
    /\ cmd = "install" /\ pc = "steam menu"
    /\ Ask
    /\ \/ /\ steam_running' = FALSE
          /\ Noted("is_steam_running", None, FALSE)
          /\ pc' = "set options"
       \/ /\ steam_running
          /\ steam_running' = steam_running
          /\ Noted("force quit failed", None, FALSE)
          /\ pc' = "steam check"
    /\ UNCHANGED <<InstallRest, factorio_path, is_steam, data_dir, mod_assets, disk,
                   modules, global_dest, exit_code, result>>

\* choice 0: the launch options are left alone
SteamSkip ==
    /\ cmd = "install" /\ pc = "steam menu"
    /\ Ask
    /\ Noted("skip", None, TRUE)
    /\ pc' = "jaws"
    /\ UNCHANGED <<InstallRest, steam_running, factorio_path, is_steam, data_dir,
                   mod_assets, disk, modules, global_dest, exit_code, result>>

\* anything else: the loop starts again
SteamInvalid ==
    /\ cmd = "install" /\ pc = "steam menu"
    /\ Ask
    /\ pc' = "steam check"
    /\ UNCHANGED <<InstallRest, steam_running, factorio_path, is_steam, data_dir,
                   mod_assets, disk, modules, global_dest, exit_code, oplog, result>>

\* the user, or something else, closes or starts Steam while the command is
\* at its Steam step
SteamChanges ==
    /\ cmd = "install" /\ pc \in {"steam check", "steam menu", "set options"}
    /\ steam_running' = ~steam_running
    /\ UNCHANGED <<InstallRest, factorio_path, is_steam, data_dir, asked, mod_assets,
                   disk, modules, global_dest, pc, exit_code, oplog, result>>

\* "<launcher_path>" %command%
CustomOptions(launcher_path) == <<"\"">> \o launcher_path \o <<"\"", " ", "%command%">>

\* set_factorio_steam_launch_options(find_steam_base(), launcher_path): the
\* localconfig.vdf of the account that has the game is copied to .bak and
\* written with the launch options
SetLaunchOptions ==
    /\ cmd = "install" /\ pc = "set options"
    /\ LET launcher_path == PathJoin(Val(data_dir), LauncherFilename)
       IN  IF FindSteamBase(disk) # None /\ IsFile(disk, LocalConfig)
           THEN disk' = (LocalConfig :> VdfFile(Some(CustomOptions(launcher_path))))
                        @@ (LocalConfig \o <<".bak">> :> DiskAt(disk, LocalConfig))
                        @@ disk
           ELSE disk' = disk
    /\ Noted("set_launch_options", Some(LocalConfig), TRUE)
    /\ pc' = "jaws"
    /\ UNCHANGED <<InstallRest, installing, mod_assets, modules, global_dest,
                   exit_code, result>>

\* install_jaws_jkm_file returns at once where the platform is not Windows
InstallReturn ==
    /\ cmd = "install" /\ pc = "jaws"
    /\ Exit(0)
    /\ UNCHANGED <<InstallRest, installing, mod_assets, disk, modules, global_dest,
                   oplog, result>>

NextInstall ==
    \/ InstallStartExit
    \/ InstallStart
    \/ ChooseCancel
    \/ ChooseInvalid
    \/ ChooseDetected
    \/ ChooseCustom
    \/ CustomPath
    \/ CustomEof
    \/ FindDatadirDies
    \/ FindDatadir
    \/ InstallDiscoverFails
    \/ InstallDiscover
    \/ InstallModsDies
    \/ InstallMods
    \/ InstallSupport
    \/ NotSteam
    \/ PromptModify
    \/ SteamMenuEof
    \/ SteamCheck
    \/ SteamRetry
    \/ SteamForceQuit
    \/ SteamSkip
    \/ SteamInvalid
    \/ SteamChanges
    \/ SetLaunchOptions
    \/ InstallReturn

SpecInstall == InitInstall /\ [][NextInstall]_vars

----------------------------------------------------------------------------
(* The claim about repo_matches_expected_url *)

\* What a URL names when letter case, one trailing slash, a trailing .git and
\* the scheme are set aside: <host>/<path>.
Repository(url) ==
    LET u == Lower(url)
        s == IF u # << >> /\ Last(u) = Sep THEN SubSeq(u, 1, Len(u) - 1) ELSE u
        g == IF EndsWith(s, DotGit) THEN SubSeq(s, 1, Len(s) - 4) ELSE s
    IN  IF StartsWith(g, Https) THEN SubSeq(g, Len(Https) + 1, Len(g))
        ELSE IF StartsWith(g, GitAt)
             THEN [i \in 1..(Len(g) - Len(GitAt)) |->
                      IF g[i + Len(GitAt)] = ":" THEN Sep ELSE g[i + Len(GitAt)]]
        ELSE g

TheRemotes == disk[MatchPath].remotes

TheExpectedUrl == Val(modules[1]["repo"])

\* C21: repo_matches_expected_url returns true if and only if some URL of some
\* remote of the working copy names the expected repository, up to letter
\* case, a trailing slash, a trailing .git and the scheme (https or ssh form).
C21_MatchUpToSchemeAndSuffix ==
    CallReturned("repo_matches_expected_url") =>
        (Val(result) <=>
            \E remote \in DOMAIN TheRemotes : \E remote_url \in TheRemotes[remote] :
                Repository(remote_url) = Repository(TheExpectedUrl))

\* the only remote is the ssh form of the repository that the module declares
\* in https form, and the answer is no
C21_Witness ==
    /\ CallReturned("repo_matches_expected_url")
    /\ TheExpectedUrl = Https \o <<"h", "/", "a">>
    /\ TheRemotes = [origin |-> {GitAt \o <<"h", ":", "a", ".", "g", "i", "t">>}]
    /\ Val(result) = FALSE

----------------------------------------------------------------------------
(* The claim about a failed run of the packaging tool *)

\* the exit codes of the packaging tool's runs for module i
FmtkRuns(i) == SelectSeq(OpsOf(i), LAMBDA o : o.op = "fmtk")

\* module i's source is a directory that package can run the tool in
Packageable(i) ==
    /\ ~ResolveModDest(todo[i], global_dest, cwd).raised
    /\ IsDir(disk, ResolveModDest(todo[i], global_dest, cwd).value)

\* the tool's run for module i ended with a code other than 0
FmtkFailed(i) == FmtkRuns(i) # << >> /\ Val(FmtkRuns(i)[1].ref) # 0

\* C22: in package, a module whose run of the packaging tool ends with a
\* non-zero exit code, or cannot be started (-1), is reported as failed, that
\* module only, and the loop goes on: every later module that package can run
\* the tool for gets its run, up to a module whose dest stops the command.
\* Exit code 0, and only 0, is reported as success.  The step that runs the
\* tool never ends the command.
C22_FailedRunIsPerModule ==
    /\ [](cmd = "package" =>
            \A i \in 1..Len(todo) :
                /\ (i < idx /\ FmtkRuns(i) # << >>) =>
                      /\ Len(FmtkRuns(i)) = 1
                      /\ report[i].msg = "packaged" <=> Val(FmtkRuns(i)[1].ref) = 0
                      /\ report[i].msg = "failed" <=> Val(FmtkRuns(i)[1].ref) # 0
                      /\ NameOf(i) \in packaged <=> Val(FmtkRuns(i)[1].ref) = 0
                /\ (i < idx /\ report[i].msg \in {"packaged", "failed"}) =>
                      FmtkRuns(i) # << >>
                /\ (FmtkFailed(i) /\ pc = "exited") =>
                      \A j \in (i + 1)..Len(todo) :
                          \/ Packageable(j) /\ FmtkRuns(j) # << >>
                          \/ ~Packageable(j) /\ report[j].msg = "missing"
                          \/ exit_code = Some(1) /\ j >= idx /\ AbsDest(idx))
    /\ [][(cmd = "package" /\ pc = "fmtk") =>
            /\ pc' = "loop" /\ idx' = idx + 1 /\ exit_code' = exit_code
            /\ \A j \in 1..Len(todo) : j # idx => report'[j] = report[j]]_vars

\* the tool could not be started for the first module, and the second module
\* was packaged all the same
C22_Witness ==
    /\ cmd = "package" /\ pc = "exited" /\ exit_code = Some(0)
    /\ Len(todo) = 2
    /\ FmtkRuns(1) # << >> /\ Val(FmtkRuns(1)[1].ref) = -1
    /\ report[1].msg = "failed" /\ NameOf(1) \notin packaged
    /\ report[2].msg = "packaged" /\ NameOf(2) \in packaged

----------------------------------------------------------------------------
(* The claims about install *)

\* the user left the menu of the executables with 0 or by ending the input
Cancelled == \E k \in DOMAIN oplog : oplog[k].op = "cancel"

\* an executable was chosen and no data directory was found for it
NoDataDir == factorio_path # None /\ data_dir = None /\ pc \notin {"choose", "custom", "datadir"}

\* something was copied
Copied == \E k \in DOMAIN oplog : oplog[k].op \in {"copy", "copy support"}

\* C23: when the user cancels the selection of the executable (choice 0 or
\* the end of the input), or no data directory is detected for the chosen
\* executable, install ends without an unhandled error and without copying a
\* mod or a support file into any directory.
C23_QuietExit ==
    (cmd = "install" /\ pc = "exited" /\ (Cancelled \/ NoDataDir))
    => /\ result = None /\ exit_code = Some(0)
       /\ ~Copied /\ disk = disk0

\* the selection was cancelled and the run ended with the TypeError of
\* find_factorio_datadir(None), nothing copied
C23_Witness ==
    /\ cmd = "install" /\ pc = "exited" /\ Cancelled
    /\ result = Some(Raise("TypeError")) /\ exit_code = Some(1)
    /\ ~Copied /\ disk = disk0

\* the steps of the run that wrote launch options
Sets == {k \in DOMAIN oplog : oplog[k].op = "set_launch_options"}

\* the localconfig.vdf and its backup are as they were when the run started
ConfigUntouched ==
    /\ DiskAt(disk, LocalConfig) = DiskAt(disk0, LocalConfig)
    /\ DiskAt(disk, LocalConfig \o <<".bak">>) = Absent

\* C24: set_factorio_steam_launch_options is called only after the user
\* chose to modify the launch options and after a later look at Steam saw it
\* not running (the look that follows a force quit included); a skip at
\* either menu, after any number of retries, ends the flow with no
\* configuration file written.
C24_ConsentAndSteamOff ==
    cmd = "install" =>
        /\ \A k \in Sets :
              /\ k > 2
              /\ oplog[k - 1].op = "is_steam_running" /\ ~oplog[k - 1].ok
              /\ \E i \in 1..(k - 2) : oplog[i].op = "modify"
        /\ (\E k \in DOMAIN oplog : oplog[k].op = "skip") => Sets = {} /\ ConfigUntouched
        /\ Sets = {} => ConfigUntouched
        /\ ~is_steam => Sets = {}

\* Steam was running, a force quit failed, a later one worked, and the launch
\* options were written
C24_Witness ==
    /\ cmd = "install" /\ pc = "exited" /\ exit_code = Some(0)
    /\ \E i, j, k \in DOMAIN oplog :
          /\ i < j /\ j < k
          /\ oplog[i].op = "modify"
          /\ oplog[j].op = "force quit failed"
          /\ k \in Sets
    /\ DiskAt(disk, LocalConfig) # DiskAt(disk0, LocalConfig)

\* the second menu was left with 0 after a retry: nothing written
C24_SkipWitness ==
    /\ cmd = "install" /\ pc = "exited"
    /\ \E i, j, k \in DOMAIN oplog :
          /\ i < j /\ j < k
          /\ oplog[i].op = "modify"
          /\ oplog[j].op = "is_steam_running" /\ oplog[j].ok
          /\ oplog[k].op = "skip"
    /\ Sets = {}

----------------------------------------------------------------------------
(* The claim about the remote fetch updates from *)

\* the fetches and pulls of the run that went through
NetworkOps == {k \in DOMAIN oplog : oplog[k].op \in {"fetch", "pull"} /\ oplog[k].ok}

\* C25: in fetch, every fetch and every pull on an existing working copy
\* contacts a remote whose URL matches the repo the module declares: the
\* remote updated from is one that made the remote-match check pass, never
\* another remote of the working copy.
C25_UpdatesFromMatchedRemote ==
    cmd = "fetch" =>
        \A k \in NetworkOps :
            \E remote_url \in oplog[k].urls :
                NormalizeUrl(remote_url) = NormalizeUrl(RepoOf(oplog[k].mod))

\* the check passed because of the remote named fork, and the fetch went to
\* origin, which is another repository
C25_Witness ==
    /\ cmd = "fetch"
    /\ \E k \in NetworkOps :
          /\ oplog[k].urls = {ForeignUrl}
          /\ NormalizeUrl(ForeignUrl) # NormalizeUrl(RepoOf(oplog[k].mod))
          /\ Recognized(DiskAt(disk0, Val(oplog[k].path)), RepoOf(oplog[k].mod))

----------------------------------------------------------------------------
(* The claim about the version of the bundled main module *)

\* the version in the manifest of the asset of the main module that the
\* bundle holds: of the directory, or of the folder of the zip named as the zip
BundledMainVersion ==
    LET asset == mod_assets[MainModName]
    IN  GetModVersionAt(disk0, asset).value

\* C26: for every bundle produced, the version the bundle is named with is
\* the version in the manifest of the main module's asset that was discovered
\* under the search root and placed in the bundle, whatever the state of the
\* main module's source checkout.
C26_NamedByBundledAsset ==
    (cmd = "bundle" /\ zip_path # None) => Val(fa_version) = BundledMainVersion

\* the bundle holds the main module's zip of version 1.2.0 and is named with
\* the version 2 of the checkout next to it
C26_Witness ==
    /\ cmd = "bundle" /\ zip_path # None
    /\ mod_assets[MainModName] = FaZipPath
    /\ BundledMainVersion = V120
    /\ fa_version = Some(V2)
    /\ Val(zip_path) = SearchRoot \o <<Sep>> \o MainModName \o <<"_", "_", "2">> \o ZipExt

====
